---- MODULE Spec2Model ----
(***************************************************************************)
(* A model of the HK MPF tool chain of ravenorb/g-code:                    *)
(*   Part I   the tolerant line parser, src/parser/hk_gcode_parser.py      *)
(*   Part II  the part indexer and the extraction / cut-order rewrite      *)
(*            engine, src/server/app/parser.py and src/server/app/extract.py*)
(* Text is held as sequences of one-character strings, so that the regular *)
(* expressions and the string methods of the source are modelled by what   *)
(* they do to the characters.                                              *)
(***************************************************************************)
EXTENDS Integers, Sequences, FiniteSets, TLC

(***************************************************************************)
(* Characters and the str methods the source uses.                         *)
(***************************************************************************)
DigitSeq == <<"0", "1", "2", "3", "4", "5", "6", "7", "8", "9">>

UpperSeq == <<"A", "B", "C", "D", "E", "F", "G", "H", "I", "J", "K", "L", "M",
              "N", "O", "P", "Q", "R", "S", "T", "U", "V", "W", "X", "Y", "Z">>

LowerSeq == <<"a", "b", "c", "d", "e", "f", "g", "h", "i", "j", "k", "l", "m",
              "n", "o", "p", "q", "r", "s", "t", "u", "v", "w", "x", "y", "z">>

Range(s) == {s[i] : i \in DOMAIN s}

IsDigit(c) == c \in Range(DigitSeq)

IsUpper(c) == c \in Range(UpperSeq)

IsLower(c) == c \in Range(LowerSeq)

IsAlpha(c) == IsUpper(c) \/ IsLower(c)

IsAlnum(c) == IsAlpha(c) \/ IsDigit(c)

\* str.isspace / the regular expression class \s, over the model's alphabet
IsSpace(c) == c \in {" ", "\t"}

DigitVal(c) == (CHOOSE i \in DOMAIN DigitSeq : DigitSeq[i] = c) - 1

DigitChar(d) == DigitSeq[d + 1]

UpperChar(c) ==
    IF IsLower(c) THEN UpperSeq[CHOOSE i \in DOMAIN LowerSeq : LowerSeq[i] = c] ELSE c

\* str.upper
Upper(s) == [i \in DOMAIN s |-> UpperChar(s[i])]

Drop(s, n) == SubSeq(s, n + 1, Len(s))

Take(s, n) == SubSeq(s, 1, n)

\* the number of leading characters of s that satisfy the class test
RECURSIVE SpanSpace(_)
SpanSpace(s) == IF s # <<>> /\ IsSpace(Head(s)) THEN 1 + SpanSpace(Tail(s)) ELSE 0

RECURSIVE SpanDigits(_)
SpanDigits(s) == IF s # <<>> /\ IsDigit(Head(s)) THEN 1 + SpanDigits(Tail(s)) ELSE 0

RECURSIVE SpanAlnum(_)
SpanAlnum(s) == IF s # <<>> /\ IsAlnum(Head(s)) THEN 1 + SpanAlnum(Tail(s)) ELSE 0

RECURSIVE SpanUpper(_)
SpanUpper(s) == IF s # <<>> /\ IsUpper(Head(s)) THEN 1 + SpanUpper(Tail(s)) ELSE 0

\* str.lstrip, str.rstrip, str.strip
LStrip(s) == Drop(s, SpanSpace(s))

RECURSIVE RStrip(_)
RStrip(s) == IF s # <<>> /\ IsSpace(s[Len(s)]) THEN RStrip(Take(s, Len(s) - 1)) ELSE s

Strip(s) == RStrip(LStrip(s))

\* str.find(c, from): the first position >= from holding c, 0 when there is none
\* (positions are 1-based here, 0-based with -1 in the source)
Find(s, c, from) ==
    LET hits == {i \in DOMAIN s : i >= from /\ s[i] = c}
    IN  IF hits = {} THEN 0 ELSE CHOOSE i \in hits : \A j \in hits : i <= j

StartsWith(s, p) == Len(s) >= Len(p) /\ Take(s, Len(p)) = p

EndsWith(s, p) == Len(s) >= Len(p) /\ Drop(s, Len(s) - Len(p)) = p

\* str.split(): the maximal runs of non-space characters
RECURSIVE SplitWords(_)
SplitWords(s) ==
    LET t == LStrip(s)
        n == IF \E i \in DOMAIN t : IsSpace(t[i])
             THEN (CHOOSE i \in DOMAIN t : IsSpace(t[i]) /\ \A j \in 1..(i - 1) : ~IsSpace(t[j])) - 1
             ELSE Len(t)
    IN  IF t = <<>> THEN <<>> ELSE <<Take(t, n)>> \o SplitWords(Drop(t, n))

\* sep.join(parts)
RECURSIVE Join(_, _)
Join(parts, sep) ==
    IF parts = <<>> THEN <<>>
    ELSE IF Len(parts) = 1 THEN parts[1]
    ELSE parts[1] \o sep \o Join(Tail(parts), sep)

\* int(digits) and str(n) for naturals
RECURSIVE DigitsToNat(_)
DigitsToNat(s) ==
    IF s = <<>> THEN 0 ELSE 10 * DigitsToNat(Take(s, Len(s) - 1)) + DigitVal(s[Len(s)])

RECURSIVE NatToDigits(_)
NatToDigits(n) ==
    IF n < 10 THEN <<DigitChar(n)>> ELSE NatToDigits(n \div 10) \o <<DigitChar(n % 10)>>

(***************************************************************************)
(* Numbers.  A float is held exactly in decimal: sign, integer part and    *)
(* millionths (to_line prints six decimals).  float() can also give        *)
(* infinity and NaN, which the arithmetic of the source does not survive.  *)
(***************************************************************************)
\* the number of decimals that _format_number prints
FracDigits == 6

\* 10^FracDigits
FracUnit == 1000000

\* DEFAULT_TOLERANCE = 1e-4, in millionths
ToleranceMicro == 100

\* the largest decimal exponent of a finite float64
FloatMaxExp10 == 308

NumVal(neg, ip, fp) == [t |-> "num", neg |-> neg /\ (ip # 0 \/ fp # 0), ip |-> ip, fp |-> fp, s |-> <<>>]

TextVal(s) == [t |-> "text", neg |-> FALSE, ip |-> 0, fp |-> 0, s |-> s]

\* the decimal digit at position k (1-based, counted from the first digit of d)
\* of a digit string whose missing positions are zeros
DigitAt(d, k) == IF k >= 1 /\ k <= Len(d) THEN DigitVal(d[k]) ELSE 0

RECURSIVE DigitsValue(_, _, _)
\* the value of the digits of d at positions from..to
DigitsValue(d, from, to) ==
    IF to < from THEN 0 ELSE 10 * DigitsValue(d, from, to - 1) + DigitAt(d, to)

RECURSIVE SpanZeros(_)
SpanZeros(s) == IF s # <<>> /\ Head(s) = "0" THEN 1 + SpanZeros(Tail(s)) ELSE 0

\* a local variable of the source: Body applied to the value
With(value, Body(_)) == Body(value)

\* the value of the decimal digits d with the decimal point after position point;
\* beyond the largest finite float64 it is infinity
FloatValue(neg, d, point) ==
    IF SpanZeros(d) = Len(d) THEN [k |-> "num", neg |-> neg, ip |-> 0, fp |-> 0]
    ELSE IF point - SpanZeros(d) - 1 > FloatMaxExp10
    THEN [k |-> "inf", neg |-> neg, ip |-> 0, fp |-> 0]
    ELSE [k |-> "num", neg |-> neg, ip |-> DigitsValue(d, 1, point),
          fp |-> DigitsValue(d, point + 1, point + FracDigits)]

\* the mantissa \d*(\.\d*)? at the start of u, and what follows it
FloatMantissa(u) ==
    With(SpanDigits(u), LAMBDA ni :
    With(Len(u) > ni /\ u[ni + 1] = ".", LAMBDA hasDot :
    With(IF hasDot THEN SpanDigits(Drop(u, ni + 1)) ELSE 0, LAMBDA nf :
        [ni |-> ni, nf |-> nf,
         digits |-> Take(u, ni) \o SubSeq(u, ni + 2, ni + 1 + nf),
         rest |-> Drop(u, ni + nf + (IF hasDot THEN 1 ELSE 0))])))

\* the exponent ([eE][-+]?\d+)? that must fill the rest of the text
FloatExponent(rest) ==
    With(Drop(rest, 1), LAMBDA e1 :
    With(IF e1 # <<>> /\ e1[1] \in {"+", "-"} THEN 1 ELSE 0, LAMBDA esgn :
    With(Drop(e1, esgn), LAMBDA ed :
        IF rest = <<>> THEN [ok |-> TRUE, exp |-> 0]
        ELSE IF rest[1] \notin {"e", "E"} \/ ed = <<>> \/ SpanDigits(ed) # Len(ed)
        THEN [ok |-> FALSE, exp |-> 0]
        ELSE [ok |-> TRUE,
              exp |-> IF esgn = 1 /\ e1[1] = "-" THEN 0 - DigitsToNat(ed) ELSE DigitsToNat(ed)])))

FloatUnsigned(neg, u) ==
    With(FloatMantissa(u), LAMBDA m :
    With(FloatExponent(m.rest), LAMBDA e :
        IF Upper(u) \in {<<"I", "N", "F">>, <<"I", "N", "F", "I", "N", "I", "T", "Y">>}
        THEN [k |-> "inf", neg |-> neg, ip |-> 0, fp |-> 0]
        ELSE IF Upper(u) = <<"N", "A", "N">>
        THEN [k |-> "nan", neg |-> FALSE, ip |-> 0, fp |-> 0]
        ELSE IF m.ni + m.nf = 0 \/ ~e.ok THEN [k |-> "bad", neg |-> FALSE, ip |-> 0, fp |-> 0]
        ELSE FloatValue(neg, m.digits, m.ni + e.exp)))

\* float(text): [k |-> "num" | "inf" | "nan" | "bad", neg, ip, fp]; "bad" is ValueError
FloatOf(text) ==
    With(Strip(text), LAMBDA t :
    With(IF t # <<>> /\ t[1] \in {"+", "-"} THEN 1 ELSE 0, LAMBDA sgn :
        FloatUnsigned(sgn = 1 /\ t[1] = "-", Drop(t, sgn))))

\* _normalize_value on a finite float: a value within the tolerance of the nearest
\* integer becomes that integer
_normalize_value(f) ==
    IF f.fp < ToleranceMicro THEN NumVal(f.neg, f.ip, 0)
    ELSE IF FracUnit - f.fp < ToleranceMicro THEN NumVal(f.neg, f.ip + 1, 0)
    ELSE NumVal(f.neg, f.ip, f.fp)

\* round() raises OverflowError on infinity and ValueError on NaN
NormalizeRaises(f) == f.k \in {"inf", "nan"}

RECURSIVE RStripZeros(_)
RStripZeros(s) == IF s # <<>> /\ s[Len(s)] = "0" THEN RStripZeros(Take(s, Len(s) - 1)) ELSE s

\* the six decimals of "%.6f"
FracText(fp) == [i \in 1..FracDigits |-> DigitChar((fp \div (10 ^ (FracDigits - i))) % 10)]

\* _format_number
_format_number(v) ==
    LET n == _normalize_value(v)
        sign == IF n.neg THEN <<"-">> ELSE <<>>
    IN  IF n.fp = 0 THEN sign \o NatToDigits(n.ip)
        ELSE sign \o NatToDigits(n.ip) \o <<".">> \o RStripZeros(FracText(n.fp))

\* _format_value
_format_value(v) ==
    IF v.t = "text" THEN <<"\"">> \o v.s \o <<"\"">> ELSE _format_number(v)

(***************************************************************************)
(* Part I.  The line parser, src/parser/hk_gcode_parser.py                 *)
(***************************************************************************)
\* Optional[int] = None for a block number
NoBlock == -1

\* an absent Optional[str] and the empty string are both the empty text: the source
\* only tests these fields for truth
NoText == <<>>

EmptyParams == [n \in {} |-> NumVal(FALSE, 0, 0)]

Put(f, k, v) == [x \in (DOMAIN f) \cup {k} |-> IF x = k THEN v ELSE f[x]]

\* HK_COMMAND_SPECS: the codes with a schema and their required parameters
HK_COMMAND_SPECS ==
    [c \in {<<"G", "0">>, <<"G", "1">>, <<"M", "3">>, <<"M", "5">>, <<"V", "S">>,
            <<"V", "E">>, <<"F", "M">>, <<"B", "P">>, <<"R", "D">>} |->
        IF c = <<"M", "3">> THEN <<"S">>
        ELSE IF c \in {<<"V", "S">>, <<"V", "E">>, <<"B", "P">>, <<"R", "D">>} THEN <<"P">>
        ELSE <<>>]

Command(code, parameters, args, payload, comment, block_number, line_number, raw) ==
    [code |-> code, parameters |-> parameters, args |-> args, payload |-> payload,
     comment |-> comment, block_number |-> block_number, line_number |-> line_number,
     raw |-> raw]

ParseError(message, missing, line_number, line_text) ==
    [message |-> message, missing |-> missing, line_number |-> line_number,
     line_text |-> line_text]

\* what a step of the parser gives: a value, a raised ParseError, or an exception
\* that is no ParseError (which nothing in parse_program catches)
Ok(v) == [kind |-> "ok", v |-> v, message |-> "", missing |-> <<>>]

Raise(message) == [kind |-> "error", v |-> <<>>, message |-> message, missing |-> <<>>]

RaiseMissing(missing) ==
    [kind |-> "error", v |-> <<>>, message |-> "Missing required parameter(s)",
     missing |-> missing]

Abort(exception) == [kind |-> "abort", v |-> <<>>, message |-> exception, missing |-> <<>>]

\* _strip_comments: (content, trailing_semicolon_comment, parenthetical_comment)
_strip_comments(line) ==
    With(Find(line, ";", 1), LAMBDA semi :
    With(IF semi > 0 THEN RStrip(Take(line, semi - 1)) ELSE line, LAMBDA content :
    With(IF semi > 0 THEN Strip(Drop(line, semi)) ELSE NoText, LAMBDA trailing :
    With(Find(content, "(", 1), LAMBDA paren :
    With(Find(content, ")", paren + 1), LAMBDA end :
        IF ~(\/ StartsWith(Strip(content), <<"(">>)
             \/ (paren > 1 /\ IsSpace(content[paren - 1])))
        THEN Ok([content |-> content, trailing |-> trailing, paren |-> NoText])
        ELSE IF end = 0 THEN Raise("Unclosed parenthetical comment")
        ELSE Ok([content |-> Strip(Take(content, paren - 1) \o <<" ">> \o Drop(content, end)),
                 trailing |-> trailing,
                 paren |-> Strip(SubSeq(content, paren + 1, end - 1))]))))))

\* _combine_comments
_combine_comments(trailing, paren) ==
    Join(SelectSeq(<<trailing, paren>>, LAMBDA c : c # NoText), <<" ", "|", " ">>)

\* _extract_block_number: (block_number, remaining_content); remainder NoText is None
_extract_block_number(content) ==
    With(LStrip(content), LAMBDA t :
    With(IF t # <<>> /\ Head(t) = "N" THEN SpanDigits(Tail(t)) ELSE 0, LAMBDA nd :
        IF nd = 0 THEN [block_number |-> NoBlock, remainder |-> Strip(content)]
        ELSE [block_number |-> DigitsToNat(SubSeq(t, 2, nd + 1)),
              remainder |-> Strip(Drop(t, nd + 1))]))

\* _split_parenthetical: the position of the parenthesis that closes the first one
RECURSIVE CloseIndex(_, _, _)
CloseIndex(rest, i, depth) ==
    IF i > Len(rest) THEN 0
    ELSE IF rest[i] = "(" THEN CloseIndex(rest, i + 1, depth + 1)
    ELSE IF rest[i] = ")" THEN (IF depth = 1 THEN i ELSE CloseIndex(rest, i + 1, depth - 1))
    ELSE CloseIndex(rest, i + 1, depth)

_split_parenthetical(rest) ==
    With(CloseIndex(rest, 1, 0), LAMBDA close :
        IF close = 0 THEN Raise("Unclosed parenthetical command")
        ELSE Ok([inner |-> SubSeq(rest, 2, close - 1), trailing |-> Drop(rest, close)]))

\* _convert_argument
_convert_argument(text) ==
    With(FloatOf(text), LAMBDA f :
        IF StartsWith(text, <<"\"">>) /\ EndsWith(text, <<"\"">>) /\ Len(text) >= 2
        THEN Ok(TextVal(SubSeq(text, 2, Len(text) - 1)))
        ELSE IF text = <<>> THEN Raise("Empty argument")
        ELSE IF f.k = "bad" THEN Ok(TextVal(text))
        ELSE IF f.k = "inf" THEN Abort("OverflowError")
        ELSE IF f.k = "nan" THEN Abort("ValueError")
        ELSE Ok(_normalize_value(f)))

\* _parse_arguments: the loop over the characters, then the tail of the function
RECURSIVE ParseArgumentsFrom(_, _, _, _, _)
ParseArgumentsFrom(text, i, buffer, in_quotes, args) ==
    With(_convert_argument(Strip(buffer)), LAMBDA arg :
        IF i > Len(text)
        THEN IF in_quotes THEN Raise("Unterminated quoted argument")
             ELSE IF buffer # <<>> \/ EndsWith(text, <<",">>)
             THEN (IF arg.kind = "ok" THEN Ok(Append(args, arg.v)) ELSE arg)
             ELSE Ok(args)
        ELSE IF text[i] = "\"" /\ (i = 1 \/ text[i - 1] # "\\")
        THEN ParseArgumentsFrom(text, i + 1, buffer, ~in_quotes, args)
        ELSE IF text[i] = "," /\ ~in_quotes
        THEN (IF arg.kind = "ok"
              THEN ParseArgumentsFrom(text, i + 1, <<>>, in_quotes, Append(args, arg.v))
              ELSE arg)
        ELSE ParseArgumentsFrom(text, i + 1, Append(buffer, text[i]), in_quotes, args))

_parse_arguments(text) == ParseArgumentsFrom(text, 1, <<>>, FALSE, <<>>)

\* COMMAND_PATTERN = ^[A-Z]+[0-9]*[A-Z]?$
MatchesCommandPattern(code) ==
    LET nu == SpanUpper(code)
        r1 == Drop(code, nu)
        r2 == Drop(r1, SpanDigits(r1))
    IN  nu >= 1 /\ (r2 = <<>> \/ (Len(r2) = 1 /\ IsUpper(r2[1])))

\* PARAM_PATTERN = ^(?P<name>[A-Z])(?P<value>[-+]?(?:\d+(?:\.\d*)?|\.\d+)(?:[eE][-+]?\d+)?)$
MatchesParamPattern(token) ==
    /\ Len(token) >= 2
    /\ IsUpper(token[1])
    /\ \A i \in 2..Len(token) : IsDigit(token[i]) \/ token[i] \in {"+", "-", ".", "e", "E"}
    /\ FloatOf(Tail(token)).k # "bad"

\* _parse_word_parameters, over tokens = [code] + rest.split()
RECURSIVE ParseWordTokens(_, _)
ParseWordTokens(tokens, parameters) ==
    With(FloatOf(Tail(Head(tokens))), LAMBDA f :
        IF tokens = <<>> THEN Ok(parameters)
        ELSE IF ~MatchesParamPattern(Head(tokens)) THEN Raise("Malformed parameter")
        ELSE IF NormalizeRaises(f) THEN Abort("OverflowError")
        ELSE ParseWordTokens(Tail(tokens),
                             Put(parameters, Head(tokens)[1], _normalize_value(f))))

_parse_word_parameters(tokens) ==
    IF ~MatchesCommandPattern(Upper(Head(tokens))) THEN Raise("Invalid command")
    ELSE ParseWordTokens(Tail(tokens), EmptyParams)

\* _parse_line_content
_parse_line_content(content, line_number, comment, raw) ==
    With(_extract_block_number(content), LAMBDA b :
    \* (?P<code>[A-Za-z][A-Za-z0-9]*)\s*(?P<rest>.*)
    With(IF b.remainder # <<>> /\ IsAlpha(b.remainder[1]) THEN SpanAlnum(b.remainder) ELSE 0,
         LAMBDA nc :
    With(Upper(Take(b.remainder, nc)), LAMBDA code :
    With(Strip(Drop(b.remainder, nc)), LAMBDA rest :
    With(_split_parenthetical(rest), LAMBDA split :
    With(_parse_arguments(split.v.inner), LAMBDA args :
    With(_parse_word_parameters(<<code>> \o SplitWords(rest)), LAMBDA words :
        IF b.remainder = NoText
        THEN Ok(Command(<<"B", "L", "O", "C", "K">>, EmptyParams, <<>>, NoText, comment,
                        b.block_number, line_number, raw))
        ELSE IF nc = 0 THEN Raise("Unable to identify command code")
        ELSE IF code = <<"W", "H", "E", "N">> /\ rest # <<>>
        THEN Ok(Command(code, EmptyParams, <<>>, rest, comment, b.block_number, line_number, raw))
        ELSE IF StartsWith(rest, <<"(">>)
        THEN (IF split.kind # "ok" THEN split
              ELSE IF args.kind # "ok" THEN args
              ELSE Ok(Command(code, EmptyParams, args.v, Strip(split.v.trailing), comment,
                              b.block_number, line_number, raw)))
        ELSE IF rest = <<>>
        THEN Ok(Command(code, EmptyParams, <<>>, NoText, comment, b.block_number, line_number, raw))
        ELSE IF words.kind # "ok" THEN words
        ELSE Ok(Command(code, words.v, <<>>, NoText, comment, b.block_number, line_number,
                        raw)))))))))

\* _validate_required_parameters: the required names that the command lacks
MissingParameters(command) ==
    IF command.code \in DOMAIN HK_COMMAND_SPECS
    THEN SelectSeq(HK_COMMAND_SPECS[command.code], LAMBDA n : n \notin DOMAIN command.parameters)
    ELSE <<>>

\* a faulty validation, which accepts every command
AcceptsEveryCommand(command) == Ok(command)

_validate_required_parameters(command) ==
    IF MissingParameters(command) # <<>> THEN RaiseMissing(MissingParameters(command))
    ELSE Ok(command)

\* One iteration of the loop of parse_program over the line at position idx:
\* what the iteration appends, or the exception that leaves the loop.
LineOutcome(line, idx) ==
    LET error(r) == [kind |-> "error", command |-> <<>>, comment |-> NoText,
                     error |-> ParseError(r.message, r.missing, idx, line)]
    IN  With(_strip_comments(line), LAMBDA sc :
        With(_combine_comments(sc.v.trailing, sc.v.paren), LAMBDA comment :
        With(_parse_line_content(sc.v.content, idx, comment, line), LAMBDA parsed :
        With(IF parsed.kind = "ok"
                /\ (DOMAIN parsed.v.parameters # {} \/ parsed.v.code \in DOMAIN HK_COMMAND_SPECS)
             THEN _validate_required_parameters(parsed.v)
             ELSE parsed, LAMBDA checked :
            IF sc.kind = "error" THEN error(sc)
            ELSE IF Strip(sc.v.content) = <<>>
            THEN [kind |-> IF comment # NoText THEN "comment" ELSE "blank",
                  command |-> <<>>, comment |-> comment, error |-> <<>>]
            ELSE IF checked.kind = "ok"
            THEN [kind |-> "command", command |-> checked.v, comment |-> NoText, error |-> <<>>]
            ELSE IF checked.kind = "error" THEN error(checked)
            ELSE [kind |-> "abort", command |-> <<>>, comment |-> NoText,
                  error |-> checked.message]))))

\* the names of a parameter mapping in sorted order
SortedNames(parameters) == SelectSeq(UpperSeq, LAMBDA n : n \in DOMAIN parameters)

\* Command.to_line
to_line(c) ==
    LET label == <<"N">> \o NatToDigits(c.block_number)
        withComment(line) ==
            IF c.comment # NoText THEN line \o <<" ", ";", " ">> \o c.comment ELSE line
        prefix == IF c.block_number # NoBlock THEN label \o <<" ">> ELSE <<>>
        args_text == Join([i \in DOMAIN c.args |-> _format_value(c.args[i])], <<",">>)
        names == SortedNames(c.parameters)
        param_text == Join([i \in DOMAIN names |->
                               <<names[i]>> \o _format_number(c.parameters[names[i]])], <<" ">>)
        base == IF c.args # <<>> THEN c.code \o <<"(">> \o args_text \o <<")">>
                ELSE IF DOMAIN c.parameters # {} THEN RStrip(c.code \o <<" ">> \o param_text)
                ELSE c.code
        full == IF c.payload # NoText THEN RStrip(base \o <<" ">> \o c.payload) ELSE base
    IN  IF /\ c.code = <<"B", "L", "O", "C", "K">>
           /\ c.block_number # NoBlock
           /\ DOMAIN c.parameters = {} /\ c.args = <<>> /\ c.payload = NoText
        THEN withComment(label)
        ELSE withComment(prefix \o full)

(***************************************************************************)
(* The input texts of the parser: the lines of the repository's tests and  *)
(* one line for each way a line can fail.                                  *)
(***************************************************************************)
Corpus == {
    <<"G", "1", " ", "X", "1", ".", "0", "0", "0", "0", "9", " ", "Y", "2", ".", "5", " ", ";", " ", "c", "u", "t", " ", "p", "a", "s", "s">>,   \* named parameters, numeric noise, a ;-comment
    <<"G", "0", " ", "X", "0", " ", "(", "r", "a", "p", "i", "d", " ", "m", "o", "v", "e", ")">>,   \* a parenthesised comment
    <<"N", "4", "2">>,   \* a bare label
    <<"N", "1", "0", " ", "H", "K", "O", "S", "T", "(", "0", ".", "3", ",", "\"", "S", "3", "0", "4", "\"", ",", "0", ")">>,   \* a labelled macro call with a quoted argument
    <<"W", "H", "E", "N", " ", "$", "R", "7", "1", "<", "$", "R", "7", "2", " ", "D", "O", " ", "X">>,   \* a WHEN payload
    <<"V", "S", " ", "P", "1", ".", "2">>,   \* a code with a required parameter, given
    <<"g", "1", " ", "X", "1">>,   \* a lower-case code
    <<>>,
    <<" ", " ">>,   \* blank lines
    <<";", " ", "h", "e", "a", "d", "e", "r">>,
    <<"(", "a", "n", "o", "t", "h", "e", "r", ")">>,   \* comment-only lines
    <<";">>,
    <<"(", " ", ")">>,   \* comment-only lines whose comment is empty
    <<"G", "1", " ", "X">>,   \* a malformed parameter
    <<"G", "1", " ", "X", "1", " ", "(", "o", "o", "p", "s">>,   \* an unclosed comment
    <<"%">>,   \* no command code
    <<"V", "S">>,   \* a missing required parameter
    <<"H", "K", "X", "(", "\"", "a">>,   \* an unclosed quote inside an unclosed call
    <<"H", "K", "X", "(", "1", ",", "\"", "a", ")">>,   \* an unterminated quoted argument
    <<"H", "K", "X", "(", "1", ",", ",", "2", ")">>,   \* an empty argument
    <<"H", "K", "X", "(", "i", "n", "f", ")">>,
    <<"H", "K", "X", "(", "n", "a", "n", ")">>,
    <<"G", "1", " ", "X", "1", "e", "9", "9", "9">>,   \* argument and parameter texts that float() turns into infinity or NaN
    <<"n", "2", "0">>,   \* a lower-case label
    <<"H", "K", "X", "(", ")", "X", "1">>,
    <<"H", "K", "X", "(", ")", " ", "f", "o", "o">>   \* an empty argument list followed by text
}

\* the longest source text, in lines
MaxLines == 2

Sources == UNION {[1..n -> Corpus] : n \in 0..MaxLines}

(***************************************************************************)
(* parse_program as a state machine: one step per iteration of its loop.   *)
(* pass 2 parses Program.to_lines() of the Program that pass 1 returned.   *)
(***************************************************************************)
VARIABLES
    source,     \* source.splitlines()
    idx,        \* the number of lines the loop has consumed
    commands,   \* Program.commands
    errors,     \* Program.errors
    comments,   \* Program.metadata["comments"]
    unparsed,   \* Program.metadata["unparsed"]
    pstatus,    \* "parsing", "returned", or "aborted" by an uncaught exception
    pass,       \* 1, or 2 for the parse of the serialized Program
    first,      \* the commands that pass 1 returned
    program,    \* the lines of the uploaded program, content.splitlines()
    request,    \* the last call of the indexer or the rewrite engine
    response,   \* what that call returned or raised
    validated_jobs,   \* ReleaseManager._validated_jobs
    released_jobs     \* the keys of ReleaseManager._released_jobs

parserVars == <<source, idx, commands, errors, comments, unparsed, pstatus, pass, first>>

rewriteVars == <<program, request, response>>

releaseVars == <<validated_jobs, released_jobs>>

vars == <<source, idx, commands, errors, comments, unparsed, pstatus, pass, first,
          program, request, response, validated_jobs, released_jobs>>

\* ReleaseManager.__init__
NoJobs ==
    /\ validated_jobs = <<>>
    /\ released_jobs = {}

ParserStart(text, n, kept) ==
    /\ source = text
    /\ idx = 0
    /\ commands = <<>>
    /\ errors = <<>>
    /\ comments = <<>>
    /\ unparsed = <<>>
    /\ pstatus = "parsing"
    /\ pass = n
    /\ first = kept

\* a faulty loop, which counts the lines from 0
OutcomeCountedFromZero == LineOutcome(source[idx + 1], idx)

Outcome == LineOutcome(source[idx + 1], idx + 1)

InLoop == pstatus = "parsing" /\ idx < Len(source)

\* program.commands.append(command)
AppendCommand ==
    /\ InLoop /\ Outcome.kind = "command"
    /\ commands' = Append(commands, Outcome.command)
    /\ idx' = idx + 1
    /\ UNCHANGED <<source, errors, comments, unparsed, pstatus, pass, first>>
    /\ UNCHANGED <<rewriteVars, releaseVars>>

\* a faulty handler, which records the error and forgets the raw line
RecordErrorWithoutRawLine ==
    /\ InLoop /\ Outcome.kind = "error"
    /\ errors' = Append(errors, Outcome.error)
    /\ idx' = idx + 1
    /\ UNCHANGED <<source, commands, comments, unparsed, pstatus, pass, first>>
    /\ UNCHANGED <<rewriteVars, releaseVars>>

\* except ParseError: program.errors.append(error); metadata["unparsed"].append(raw_line)
RecordError ==
    /\ InLoop /\ Outcome.kind = "error"
    /\ errors' = Append(errors, Outcome.error)
    /\ unparsed' = Append(unparsed, source[idx + 1])
    /\ idx' = idx + 1
    /\ UNCHANGED <<source, commands, comments, pstatus, pass, first>>
    /\ UNCHANGED <<rewriteVars, releaseVars>>

\* a line that holds only a comment: metadata["comments"].append(combined_comment)
RecordComment ==
    /\ InLoop /\ Outcome.kind = "comment"
    /\ comments' = Append(comments, Outcome.comment)
    /\ idx' = idx + 1
    /\ UNCHANGED <<source, commands, errors, unparsed, pstatus, pass, first>>
    /\ UNCHANGED <<rewriteVars, releaseVars>>

\* a line with no content and no comment text: continue
SkipBlank ==
    /\ InLoop /\ Outcome.kind = "blank"
    /\ idx' = idx + 1
    /\ UNCHANGED <<source, commands, errors, comments, unparsed, pstatus, pass, first>>
    /\ UNCHANGED <<rewriteVars, releaseVars>>

\* an exception that is no ParseError leaves parse_program: no Program is returned
AbortParse ==
    /\ InLoop /\ Outcome.kind = "abort"
    /\ pstatus' = "aborted"
    /\ UNCHANGED <<source, idx, commands, errors, comments, unparsed, pass, first>>
    /\ UNCHANGED <<rewriteVars, releaseVars>>

\* return program
ReturnProgram ==
    /\ pstatus = "parsing" /\ idx = Len(source)
    /\ pstatus' = "returned"
    /\ UNCHANGED <<source, idx, commands, errors, comments, unparsed, pass, first>>
    /\ UNCHANGED <<rewriteVars, releaseVars>>

\* Program.to_lines(), handed to parse_program again
to_lines ==
    /\ pstatus = "returned" /\ pass = 1
    /\ source' = [i \in DOMAIN commands |-> to_line(commands[i])]
    /\ idx' = 0
    /\ commands' = <<>>
    /\ errors' = <<>>
    /\ comments' = <<>>
    /\ unparsed' = <<>>
    /\ pstatus' = "parsing"
    /\ pass' = 2
    /\ first' = commands
    /\ UNCHANGED <<rewriteVars, releaseVars>>

(***************************************************************************)
(* Part II.  The part indexer, src/server/app/parser.py, and the rewrite   *)
(* engine, src/server/app/extract.py.  Positions in a list of lines are    *)
(* 1-based here, so a position is also the 1-based line number.            *)
(***************************************************************************)
\* Optional[int]: <<>> is None, <<v>> is the integer v
None == <<>>

Some(v) == <<v>>

Min(S) == CHOOSE x \in S : \A y \in S : x <= y

Max(S) == CHOOSE x \in S : \A y \in S : x >= y

\* needle in text
Contains(text, needle) ==
    \E i \in 1..(Len(text) - Len(needle) + 1) : SubSeq(text, i, i + Len(needle) - 1) = needle

\* str.split(sep) for a one-character separator
RECURSIVE SplitOn(_, _)
SplitOn(text, sep) ==
    LET at == Find(text, sep, 1)
    IN  IF at = 0 THEN <<text>> ELSE <<Take(text, at - 1)>> \o SplitOn(Drop(text, at), sep)

StripAll(texts) == [i \in DOMAIN texts |-> Strip(texts[i])]

NonEmpty(texts) == SelectSeq(texts, LAMBDA t : t # <<>>)

\* re.search of NAME\((?P<params>[^)]*)\) with re.IGNORECASE: the first NAME( that a
\* closing parenthesis follows; at is 0 when there is no match
CallMatch(line, name) ==
    With(name \o <<"(">>, LAMBDA pat :
    With(Upper(line), LAMBDA up :
    With({i \in 1..(Len(line) - Len(pat) + 1) :
             /\ SubSeq(up, i, i + Len(pat) - 1) = pat
             /\ Find(line, ")", i + Len(pat)) > 0}, LAMBDA starts :
    With(IF starts = {} THEN 0 ELSE Min(starts), LAMBDA at :
    With(Find(line, ")", at + Len(pat)), LAMBDA close :
        [at |-> at, close |-> IF at = 0 THEN 0 ELSE close,
         params |-> IF at = 0 THEN <<>> ELSE SubSeq(line, at + Len(pat), close - 1)])))))

HasCall(line, name) == CallMatch(line, name).at > 0

HKOST == <<"H", "K", "O", "S", "T">>

HKSTR == <<"H", "K", "S", "T", "R">>

HKSTO == <<"H", "K", "S", "T", "O">>

HKPED == <<"H", "K", "P", "E", "D">>

HKPPP == <<"H", "K", "P", "P", "P">>

HKINI == <<"H", "K", "I", "N", "I">>

\* pattern.sub(replacement, line): every match is replaced
RECURSIVE SubCall(_, _, _)
SubCall(line, name, replacement) ==
    With(CallMatch(line, name), LAMBDA m :
        IF m.at = 0 THEN line
        ELSE Take(line, m.at - 1) \o replacement
             \o SubCall(Drop(line, m.close), name, replacement))

\* LINE_LABEL_RE / LINE_LABEL_PATTERN = ^N(\d+) with re.IGNORECASE: the digits, <<>> without a match
LabelDigits(line) ==
    IF line # <<>> /\ line[1] \in {"N", "n"} THEN Take(Tail(line), SpanDigits(Tail(line))) ELSE <<>>

HasLabel(line) == LabelDigits(line) # <<>>

LabelOf(line) == DigitsToNat(LabelDigits(line))

\* the text after the label match
AfterLabel(line) == Drop(line, 1 + Len(LabelDigits(line)))

\* int(float(text)) inside try/except ValueError: float() raises ValueError on text that
\* is no number, int() raises ValueError on NaN and OverflowError on infinity
IntOfFloat(text) ==
    With(FloatOf(text), LAMBDA f :
        IF f.k \in {"bad", "nan"} THEN [kind |-> "ValueError", v |-> 0]
        ELSE IF f.k = "inf" THEN [kind |-> "OverflowError", v |-> 0]
        ELSE [kind |-> "ok", v |-> IF f.neg THEN 0 - f.ip ELSE f.ip])

\* parser._split_params: a split at the commas outside double quotes, empty items dropped
RECURSIVE SplitParamsFrom(_, _, _, _)
SplitParamsFrom(text, i, current, in_quotes) ==
    IF i > Len(text) THEN <<Strip(current)>>
    ELSE IF text[i] = "\"" THEN SplitParamsFrom(text, i + 1, Append(current, text[i]), ~in_quotes)
    ELSE IF text[i] = "," /\ ~in_quotes
    THEN <<Strip(current)>> \o SplitParamsFrom(text, i + 1, <<>>, in_quotes)
    ELSE SplitParamsFrom(text, i + 1, Append(current, text[i]), in_quotes)

_split_params(text) == NonEmpty(SplitParamsFrom(text, 1, <<>>, FALSE))

\* parser._index_labels: the last line bearing each label wins
\* a faulty index, in which the first line bearing each label wins
IndexLabelsFirstWins(lines) ==
    [l \in {LabelOf(lines[i]) : i \in {j \in DOMAIN lines : HasLabel(lines[j])}} |->
        Min({i \in DOMAIN lines : HasLabel(lines[i]) /\ LabelOf(lines[i]) = l})]

_index_labels(lines) ==
    [l \in {LabelOf(lines[i]) : i \in {j \in DOMAIN lines : HasLabel(lines[j])}} |->
        Max({i \in DOMAIN lines : HasLabel(lines[i]) /\ LabelOf(lines[i]) = l})]

\* dict.get: a position, or 0 for None
Lookup(index, label) == IF label \in DOMAIN index THEN index[label] ELSE 0

\* a faulty prefix length, which forgets the labels of four digits or fewer
PrefixLengthWithoutShortLabels(digits) == Min({4, digits - 4})

\* parser._label_prefix_length
_label_prefix_length(digits) == IF digits <= 4 THEN 1 ELSE Min({4, digits - 4})

\* parser._part_number_from_label
_part_number_from_label(label) ==
    With(NatToDigits(label), LAMBDA label_str :
        DigitsToNat(Take(label_str, _label_prefix_length(Len(label_str)))))

\* parser._extract_hkost_details: the anchors as float() gives them (k = "bad" is None)
\* and the profile label; "raised" is an exception that is no ValueError
_extract_hkost_details(line) ==
    LET noFloat == [k |-> "bad", neg |-> FALSE, ip |-> 0, fp |-> 0]
    IN  With(_split_params(CallMatch(line, HKOST).params), LAMBDA parts :
        With(IntOfFloat(parts[4]), LAMBDA profile :
            [anchor_x |-> IF Len(parts) >= 1 THEN FloatOf(parts[1]) ELSE noFloat,
             anchor_y |-> IF Len(parts) >= 2 THEN FloatOf(parts[2]) ELSE noFloat,
             profile_line |-> IF Len(parts) >= 4 /\ profile.kind = "ok" THEN Some(profile.v)
                              ELSE None,
             raised |-> Len(parts) >= 4 /\ profile.kind = "OverflowError"]))

\* parser._find_profile_end
_find_profile_end(lines, start_index) ==
    With({i \in start_index..Len(lines) : HasCall(lines[i], HKPED)}, LAMBDA ends :
        IF ends = {} THEN Len(lines) ELSE Min(ends))

\* parser._count_contours
_count_contours(lines, start_index, end_index) ==
    Cardinality({i \in start_index..end_index : HasCall(lines[i], HKSTR)})

PartSummary(part_number, part_line, hkost_line, profile_line, start_line, end_line, contours, anchor_x, anchor_y) ==
    [part_number |-> part_number, part_line |-> part_line, hkost_line |-> hkost_line,
     profile_line |-> profile_line, start_line |-> start_line, end_line |-> end_line,
     contours |-> contours, anchor_x |-> anchor_x, anchor_y |-> anchor_y]

\* `if profile_line`: None and 0 are both false
ProfileIsTruthy(profile_line) == profile_line # None /\ profile_line # Some(0)

\* the body of the loop of HKParser.summarize_parts: the PartSummary appended for the
\* HKOST line at position pos when count parts precede it
SummaryAt(lines, pos, count) ==
    With(IF HasLabel(lines[pos]) THEN LabelOf(lines[pos]) ELSE pos, LAMBDA part_line :
    With(_extract_hkost_details(lines[pos]), LAMBDA d :
    With(IF ProfileIsTruthy(d.profile_line)
         THEN Lookup(_index_labels(lines), d.profile_line[1]) ELSE 0, LAMBDA start_index :
    With(_find_profile_end(lines, start_index), LAMBDA end_index :
        PartSummary(IF HasLabel(lines[pos]) THEN _part_number_from_label(part_line)
                    ELSE count + 1,
                    part_line, pos, d.profile_line,
                    IF start_index # 0 THEN start_index ELSE pos,
                    IF start_index # 0 THEN end_index ELSE pos,
                    IF start_index # 0 THEN _count_contours(lines, start_index, end_index)
                    ELSE 0,
                    d.anchor_x, d.anchor_y)))))

\* HKParser.summarize_parts: one PartSummary per line that HKOST_RE finds, in line order;
\* int(float("inf")) on a profile reference ends the call with OverflowError
summarize_parts(lines) ==
    With(StripAll(lines), LAMBDA normalized_lines :
    With(SelectSeq([i \in DOMAIN lines |-> i], LAMBDA i : HasCall(normalized_lines[i], HKOST)),
         LAMBDA at :
        IF \E k \in DOMAIN at : _extract_hkost_details(normalized_lines[at[k]]).raised
        THEN [kind |-> "OverflowError", parts |-> <<>>]
        ELSE [kind |-> "ok",
              parts |-> [k \in DOMAIN at |-> SummaryAt(normalized_lines, at[k], k - 1)]]))

\* parser._extract_profile_line
ParserExtractProfileLine(line) == _extract_hkost_details(line)

\* parser.extract_part_block: the first line that starts with N<part_line> and calls
\* HKOST names the profile; the block runs from the profile label to the next HKPED(...)
extract_part_block(lines, part_line) ==
    With({i \in DOMAIN lines :
             /\ StartsWith(Upper(Strip(lines[i])), <<"N">> \o NatToDigits(part_line))
             /\ HasCall(Upper(Strip(lines[i])), HKOST)}, LAMBDA hits :
    With(ParserExtractProfileLine(lines[Min(hits)]).profile_line, LAMBDA profile_line :
    With(StripAll(lines), LAMBDA stripped :
    With(Lookup(_index_labels(stripped), profile_line[1]), LAMBDA start_index :
        IF hits = {} THEN <<>>
        ELSE IF profile_line = None THEN <<>>
        ELSE IF start_index = 0 THEN <<>>
        ELSE SubSeq(lines, start_index, _find_profile_end(stripped, start_index))))))

\* parser._split_contour_blocks, the loop from position pos on
RECURSIVE SplitContourBlocksFrom(_, _, _, _, _)
SplitContourBlocksFrom(lines, pos, blocks, current, in_block) ==
    LET flush(bs, cur) == IF cur # <<>> THEN Append(bs, cur) ELSE bs
    IN  With(Strip(lines[pos]), LAMBDA normalized :
        With(IF in_block THEN Append(current, lines[pos]) ELSE current, LAMBDA extended :
            IF pos > Len(lines) THEN flush(blocks, current)
            ELSE IF HasCall(normalized, HKSTR)
            THEN SplitContourBlocksFrom(lines, pos + 1, flush(blocks, current), <<lines[pos]>>,
                                        TRUE)
            ELSE IF in_block /\ HasCall(normalized, HKSTO)
            THEN SplitContourBlocksFrom(lines, pos + 1, Append(blocks, extended), <<>>, FALSE)
            ELSE IF HasCall(normalized, HKPED) THEN flush(flush(blocks, extended), extended)
            ELSE SplitContourBlocksFrom(lines, pos + 1, blocks, extended, in_block)))

_split_contour_blocks(lines) == SplitContourBlocksFrom(lines, 1, <<>>, <<>>, FALSE)

\* parser.extract_part_contour_blocks
extract_part_contour_blocks(lines, part_line) ==
    With(extract_part_block(lines, part_line), LAMBDA part_block :
        IF part_block = <<>> THEN <<>> ELSE _split_contour_blocks(part_block))

\* parser.extract_part_contour_block
extract_part_contour_block(lines, part_line, contour_index) ==
    With(extract_part_contour_blocks(lines, part_line), LAMBDA contour_blocks :
        IF contour_index < 1 \/ contour_index > Len(contour_blocks) THEN <<>>
        ELSE contour_blocks[contour_index])

\* extract_part_block raises where int(float(...)) overflows on the HKOST line it picked
ExtractPartBlockRaises(lines, part_line) ==
    With({i \in DOMAIN lines :
             /\ StartsWith(Upper(Strip(lines[i])), <<"N">> \o NatToDigits(part_line))
             /\ HasCall(Upper(Strip(lines[i])), HKOST)}, LAMBDA hits :
        hits # {} /\ ParserExtractProfileLine(lines[Min(hits)]).raised)

(***************************************************************************)
(* src/server/app/extract.py.  Coordinates are integers in millionths.     *)
(***************************************************************************)
Micro(f) == (IF f.neg THEN -1 ELSE 1) * (f.ip * FracUnit + f.fp)

Concat(seqs) ==
    LET RECURSIVE Go(_)
        Go(k) == IF k > Len(seqs) THEN <<>> ELSE seqs[k] \o Go(k + 1)
    IN  Go(1)

\* str(int)
IntToText(v) == IF v < 0 THEN <<"-">> \o NatToDigits(0 - v) ELSE NatToDigits(v)

\* [line.rstrip() for line in content.splitlines() if line.strip()]
ContentLines(content) ==
    LET kept == SelectSeq(content, LAMBDA l : Strip(l) # <<>>)
    IN  [i \in DOMAIN kept |-> RStrip(kept[i])]

\* extract._extract_profile_line: the fourth non-empty HKOST argument as int(float(...))
_extract_profile_line(hkost_line) ==
    With(CallMatch(hkost_line, HKOST), LAMBDA m :
    With(NonEmpty(StripAll(SplitOn(m.params, ","))), LAMBDA parts :
    With(IntOfFloat(parts[4]), LAMBDA r :
        IF m.at = 0 \/ Len(parts) < 4 THEN [raised |-> FALSE, v |-> None]
        ELSE IF r.kind = "OverflowError" THEN [raised |-> TRUE, v |-> None]
        ELSE IF r.kind = "ValueError" THEN [raised |-> FALSE, v |-> None]
        ELSE [raised |-> FALSE, v |-> Some(r.v)])))

\* extract._find_block_end: 0 is None
_find_block_end(lines, start_idx) ==
    With({i \in start_idx..Len(lines) : Contains(Upper(lines[i]), HKPED)}, LAMBDA ends :
        IF ends = {} THEN 0 ELSE Min(ends))

\* extract._collect_until_hkppp, the lines it returns
_collect_until_hkppp(lines, start_idx) ==
    With({i \in (start_idx + 1)..Len(lines) : Contains(Upper(lines[i]), HKPPP)}, LAMBDA stops :
        IF stops = {} THEN SubSeq(lines, start_idx + 1, Len(lines))
        ELSE SubSeq(lines, start_idx + 1, Min(stops)))

\* COORD_PATTERN, ([XY])([-+]?\d*\.?\d+): the length of the number matched after the
\* letter at position pos, 0 where the pattern does not match there
CoordMatchLen(line, pos) ==
    With(Drop(line, pos), LAMBDA rest :
    With(IF rest # <<>> /\ rest[1] \in {"-", "+"} THEN 1 ELSE 0, LAMBDA sign :
    With(Drop(rest, sign), LAMBDA body :
    With(SpanDigits(body), LAMBDA n1 :
    With(IF Len(body) > n1 /\ body[n1 + 1] = "." THEN SpanDigits(Drop(body, n1 + 1)) ELSE 0,
         LAMBDA n2 :
        IF line[pos] \notin {"X", "Y"} THEN 0
        ELSE IF n2 > 0 THEN sign + n1 + 1 + n2 ELSE IF n1 > 0 THEN sign + n1 ELSE 0)))))

\* COORD_PATTERN.findall.  A match holds no X and no Y after its first character, so
\* the matches are the ones that start at each position, left to right.
CoordFindAll(line) ==
    With(SelectSeq([p \in 1..Len(line) |-> p], LAMBDA p : CoordMatchLen(line, p) > 0),
         LAMBDA at :
        [k \in DOMAIN at |->
            [axis |-> line[at[k]],
             value |-> SubSeq(line, at[k] + 1, at[k] + CoordMatchLen(line, at[k]))]])

\* the coordinates one line adds to xs and ys in _bounds_for_block
LineCoords(line) ==
    LET of(coords, axis) == With(SelectSeq(coords, LAMBDA c : c.axis = axis), LAMBDA sel :
                                [i \in DOMAIN sel |-> Micro(FloatOf(sel[i].value))])
    IN  With(CallMatch(line, HKSTR), LAMBDA m :
        With(NonEmpty(StripAll(SplitOn(m.params, ","))), LAMBDA params :
        With([k \in 1..7 |-> FloatOf(params[k])], LAMBDA f :
        With(m.at # 0 /\ Len(params) >= 7, LAMBDA use :
        With([k \in 1..7 |-> use /\ \A j \in {3, 4, 6, 7} : j <= k => f[j].k # "bad"],
             LAMBDA ok :
        With(CoordFindAll(line), LAMBDA coords :
            [xs |-> (IF ok[3] THEN <<Micro(f[3])>> ELSE <<>>)
                    \o (IF ok[6] THEN <<Micro(f[6])>> ELSE <<>>) \o of(coords, "X"),
             ys |-> (IF ok[4] THEN <<Micro(f[4])>> ELSE <<>>)
                    \o (IF ok[7] THEN <<Micro(f[7])>> ELSE <<>>) \o of(coords, "Y")]))))))

\* extract._bounds_for_block
_bounds_for_block(lines) ==
    With([i \in DOMAIN lines |-> LineCoords(lines[i])], LAMBDA found :
    With(Range(Concat([i \in DOMAIN lines |-> found[i].xs])), LAMBDA xs :
    With(Range(Concat([i \in DOMAIN lines |-> found[i].ys])), LAMBDA ys :
        IF xs = {} \/ ys = {} THEN [min_x |-> 0, min_y |-> 0, max_x |-> 0, max_y |-> 0]
        ELSE [min_x |-> Min(xs), min_y |-> Min(ys), max_x |-> Max(xs), max_y |-> Max(ys)])))

CoordDigits == 4

CoordUnit == 10000

\* extract._format_float: f"{value:.4f}".rstrip("0").rstrip(".")
_format_float(value) ==
    With((IF value < 0 THEN 0 - value ELSE value) + (FracUnit \div CoordUnit) \div 2, LAMBDA mag :
    With(mag \div (FracUnit \div CoordUnit), LAMBDA q :
    With(NatToDigits(q % CoordUnit), LAMBDA frac :
    With(RStripZeros((IF value < 0 THEN <<"-">> ELSE <<>>) \o NatToDigits(q \div CoordUnit)
                     \o <<".">> \o [i \in 1..(CoordDigits - Len(frac)) |-> "0"] \o frac),
         LAMBDA trimmed :
        IF trimmed # <<>> /\ trimmed[Len(trimmed)] = "." THEN Take(trimmed, Len(trimmed) - 1)
        ELSE trimmed))))

\* a faulty _translate_hkini, which leaves the line as it is
LeavesHkini(line, width, height) == line

\* extract._translate_hkini: the second and third HKINI arguments become width and height
_translate_hkini(line, width, height) ==
    With(CallMatch(line, HKINI), LAMBDA m :
    With(StripAll(SplitOn(m.params, ",")), LAMBDA params :
        IF m.at = 0 THEN line
        ELSE SubCall(line, HKINI,
                     HKINI \o <<"(">>
                     \o Join(IF Len(params) >= 3
                             THEN [params EXCEPT ![2] = _format_float(width),
                                                 ![3] = _format_float(height)]
                             ELSE params, <<",">>)
                     \o <<")">>)))

\* extract._find_first_hkost_index: 0 is None
_find_first_hkost_index(lines) ==
    With({i \in DOMAIN lines : HasCall(lines[i], HKOST)}, LAMBDA hits :
        IF hits = {} THEN 0 ELSE Min(hits))

\* extract._find_last_hkppp_index: 0 is None
_find_last_hkppp_index(lines) ==
    With({i \in DOMAIN lines : Contains(Upper(lines[i]), HKPPP)}, LAMBDA hits :
        IF hits = {} THEN 0 ELSE Max(hits))

\* extract._header_lines
_header_lines(lines) ==
    With(_find_first_hkost_index(lines), LAMBDA first_hkost :
        IF first_hkost = 0 THEN lines ELSE Take(lines, first_hkost - 1))

\* extract._remove_contour_blocks: whether the line at position pos is dropped, given
\* in_block before it
Dropped(line, in_block) == in_block \/ HasCall(Strip(line), HKSTR)

\* extract._remove_contour_blocks, the loop from position pos on
RECURSIVE RemoveContourBlocksFrom(_, _, _)
RemoveContourBlocksFrom(lines, pos, in_block) ==
    IF pos > Len(lines) THEN <<>>
    ELSE (IF Dropped(lines[pos], in_block) THEN <<>> ELSE <<lines[pos]>>)
         \o RemoveContourBlocksFrom(lines, pos + 1,
                /\ Dropped(lines[pos], in_block)
                /\ ~Contains(Upper(Strip(lines[pos])), HKPED))

\* a faulty _remove_contour_blocks, which keeps every line
KeepsContourBlocks(lines) == lines

\* extract._remove_contour_blocks
_remove_contour_blocks(lines) == RemoveContourBlocksFrom(lines, 1, FALSE)

\* extract._footer_lines with strip_contours=True
_footer_lines(lines) ==
    With(_find_last_hkppp_index(lines), LAMBDA last_hkppp :
        IF last_hkppp = 0 THEN <<>> ELSE _remove_contour_blocks(Drop(lines, last_hkppp)))

\* extract._strip_label, the content it returns
StripLabelContent(line) == IF HasLabel(line) THEN LStrip(AfterLabel(line)) ELSE LStrip(line)

\* f"N{label} {content}".rstrip()
Relabel(label, content) == RStrip(<<"N">> \o NatToDigits(label) \o <<" ">> \o content)

\* extract._insert_extra_contours: the borrowed lines go before the first HKPED line,
\* relabelled from the largest label of the part on; only the label changes
\* a faulty splice, which labels the borrowed lines from the largest label itself
InsertLabelledFromLargest(part_lines, extra_blocks) ==
    With({i \in DOMAIN part_lines : Contains(Upper(part_lines[i]), HKPED)}, LAMBDA hits :
    With(Min(hits), LAMBDA hkped_index :
    With({LabelOf(part_lines[i]) : i \in {j \in DOMAIN part_lines : HasLabel(part_lines[j])}},
         LAMBDA labels :
    With(IF labels = {} THEN 0 ELSE Max(labels), LAMBDA next_label :
    With(Concat(extra_blocks), LAMBDA borrowed :
        IF hits = {} THEN part_lines
        ELSE Take(part_lines, hkped_index - 1)
             \o [i \in DOMAIN borrowed |->
                    Relabel(next_label + i - 1, StripLabelContent(borrowed[i]))]
             \o <<Relabel(next_label + Len(borrowed), StripLabelContent(part_lines[hkped_index]))>>
             \o Drop(part_lines, hkped_index))))))

_insert_extra_contours(part_lines, extra_blocks) ==
    With({i \in DOMAIN part_lines : Contains(Upper(part_lines[i]), HKPED)}, LAMBDA hits :
    With(Min(hits), LAMBDA hkped_index :
    With({LabelOf(part_lines[i]) : i \in {j \in DOMAIN part_lines : HasLabel(part_lines[j])}},
         LAMBDA labels :
    With((IF labels = {} THEN 0 ELSE Max(labels)) + 1, LAMBDA next_label :
    With(Concat(extra_blocks), LAMBDA borrowed :
        IF hits = {} THEN part_lines
        ELSE Take(part_lines, hkped_index - 1)
             \o [i \in DOMAIN borrowed |->
                    Relabel(next_label + i - 1, StripLabelContent(borrowed[i]))]
             \o <<Relabel(next_label + Len(borrowed), StripLabelContent(part_lines[hkped_index]))>>
             \o Drop(part_lines, hkped_index))))))

\* extract._label_prefix_length, the rewrite engine's own copy of the function, which
\* takes the number of digits
extract_label_prefix_length(label_digits) ==
    IF label_digits <= 4 THEN 1 ELSE Min({4, label_digits - 4})

\* extract._renumber_label
_renumber_label(label, new_part_number) ==
    With(extract_label_prefix_length(Len(label)), LAMBDA prefix_len :
    With(NatToDigits(new_part_number), LAMBDA digits :
        IF label = <<>> THEN label
        ELSE [i \in 1..(prefix_len - Len(digits)) |-> "0"] \o digits \o Drop(label, prefix_len)))

\* extract._renumber_line_label
_renumber_line_label(line, new_part_number) ==
    IF ~HasLabel(line) THEN line
    ELSE <<"N">> \o _renumber_label(LabelDigits(line), new_part_number) \o AfterLabel(line)

\* extract._renumber_block_lines
_renumber_block_lines(lines, new_part_number) ==
    [i \in DOMAIN lines |-> _renumber_line_label(lines[i], new_part_number)]

\* extract._renumber_hkost_line
_renumber_hkost_line(line, new_part_number) ==
    With(_renumber_line_label(line, new_part_number), LAMBDA updated :
    With(CallMatch(updated, HKOST), LAMBDA m :
    With(StripAll(SplitOn(m.params, ",")), LAMBDA params :
    With(IntOfFloat(params[4]), LAMBDA r :
        IF m.at = 0 \/ Len(params) < 4 \/ r.kind # "ok" THEN updated
        ELSE SubCall(updated, HKOST,
                     HKOST \o <<"(">>
                     \o Join([params EXCEPT ![4] = _renumber_label(IntToText(r.v),
                                                                   new_part_number)], <<",">>)
                     \o <<")">>)))))

\* extract._collapse_blank_lines
_collapse_blank_lines(lines) ==
    LET blank(i) == Strip(lines[i]) = <<>>
        keep == {i \in DOMAIN lines : ~(blank(i) /\ i > 1 /\ blank(i - 1))}
        RECURSIVE Go(_)
        Go(k) == IF k > Len(lines) THEN <<>>
                 ELSE (IF k \in keep THEN <<IF blank(k) THEN <<>> ELSE lines[k]>> ELSE <<>>) \o Go(k + 1)
    IN  Go(1)

Failure(exception, message) ==
    [kind |-> exception, message |-> message, lines |-> <<>>, width |-> 0, height |-> 0]

PartExtractionResult(lines, width, height) ==
    [kind |-> "ok", message |-> "", lines |-> lines, width |-> width, height |-> height]

One == FracUnit

\* the blocks extract_part_program borrows, one per (part_line, contour_index) that resolves
ExtraBlocks(lines, extra_contours) ==
    SelectSeq([i \in DOMAIN extra_contours |->
                  extract_part_contour_block(lines, extra_contours[i][1], extra_contours[i][2])],
              LAMBDA b : b # <<>>)

\* extract.extract_part_program
extract_part_program(content, part_label, margin, extra_contours) ==
    With(ContentLines(content), LAMBDA lines :
    With(_index_labels(lines), LAMBDA label_to_index :
    With(Lookup(label_to_index, part_label), LAMBDA hkost_idx :
    With(_extract_profile_line(lines[hkost_idx]), LAMBDA profile_line :
    With(Lookup(label_to_index, profile_line.v[1]), LAMBDA block_start :
    With(_find_block_end(lines, block_start), LAMBDA block_end :
    With(ExtraBlocks(lines, extra_contours), LAMBDA extra_blocks :
    With(IF extra_blocks # <<>>
         THEN _insert_extra_contours(SubSeq(lines, block_start, block_end), extra_blocks)
         ELSE SubSeq(lines, block_start, block_end), LAMBDA part_lines :
    With(_bounds_for_block(part_lines), LAMBDA b :
    With((b.max_x - b.min_x) + margin, LAMBDA width :
    With((b.max_y - b.min_y) + margin, LAMBDA height :
    With(_header_lines(lines) \o <<lines[hkost_idx]>> \o _collect_until_hkppp(lines, hkost_idx)
         \o part_lines \o _footer_lines(lines), LAMBDA output :
        IF hkost_idx = 0
        THEN Failure("ValueError", "Part label not found.")
        ELSE IF profile_line.raised
        THEN Failure("OverflowError", "cannot convert float infinity to integer")
        ELSE IF profile_line.v = None
        THEN Failure("ValueError", "HKOST line missing profile reference.")
        ELSE IF block_start = 0
        THEN Failure("ValueError", "Profile line not found for part.")
        ELSE IF block_end = 0
        THEN Failure("ValueError", "Unable to find HKPED terminator for part.")
        ELSE IF \E i \in DOMAIN extra_contours :
                    /\ extra_contours[i][2] >= 1
                    /\ ExtractPartBlockRaises(lines, extra_contours[i][1])
        THEN Failure("OverflowError", "cannot convert float infinity to integer")
        ELSE PartExtractionResult(
                 [i \in DOMAIN output |-> _translate_hkini(output[i], width + One, height + One)],
                 width, height)))))))))))))

\* extract.extract_part_profile_program
extract_part_profile_program(content, part_line, margin) ==
    With(ContentLines(content), LAMBDA lines :
    With(_index_labels(lines), LAMBDA label_to_index :
    With(Lookup(label_to_index, part_line), LAMBDA hkost_idx :
    With(_extract_profile_line(lines[hkost_idx]), LAMBDA profile_line :
    With(Lookup(label_to_index, profile_line.v[1]), LAMBDA block_start :
    With(_find_block_end(lines, block_start), LAMBDA block_end :
    With(SubSeq(lines, block_start, block_end), LAMBDA part_lines :
    With(_bounds_for_block(part_lines), LAMBDA b :
        IF hkost_idx = 0
        THEN Failure("ValueError", "Part line not found.")
        ELSE IF profile_line.raised
        THEN Failure("OverflowError", "cannot convert float infinity to integer")
        ELSE IF profile_line.v = None
        THEN Failure("ValueError", "HKOST line missing profile reference.")
        ELSE IF block_start = 0
        THEN Failure("ValueError", "Profile line not found for part.")
        ELSE IF block_end = 0
        THEN Failure("ValueError", "Unable to find HKPED terminator for part.")
        ELSE PartExtractionResult(
                 <<lines[hkost_idx]>> \o part_lines \o _collect_until_hkppp(lines, hkost_idx),
                 (b.max_x - b.min_x) + margin, (b.max_y - b.min_y) + margin)))))))))

\* {part.part_number: part for part in parts}: the last part of a number wins
PartsByNumber(parts) ==
    [n \in {parts[i].part_number : i \in DOMAIN parts} |->
        parts[Max({i \in DOMAIN parts : parts[i].part_number = n})]]

\* requested + missing
OrderedParts(parts, order) ==
    LET known == {parts[i].part_number : i \in DOMAIN parts}
        requested == SelectSeq(order, LAMBDA n : n \in known)
        numbers == [i \in DOMAIN parts |-> parts[i].part_number]
    IN  requested \o SelectSeq(numbers, LAMBDA n : n \notin Range(requested))

\* {part_number: idx + 1 for idx, part_number in enumerate(ordered_parts)}
NewPartNumbers(ordered_parts) ==
    [n \in Range(ordered_parts) |-> Max({i \in DOMAIN ordered_parts : ordered_parts[i] = n})]

\* the first loop of build_reordered_program: each HKOST line and its trailer, renumbered
RECURSIVE HkostSection(_, _, _, _)
HkostSection(lines, parts, ordered_parts, k) ==
    With(PartsByNumber(parts)[ordered_parts[k]].hkost_line, LAMBDA hkost_line :
    With(NewPartNumbers(ordered_parts)[ordered_parts[k]], LAMBDA new_part_number :
        IF k > Len(ordered_parts) THEN <<>>
        ELSE (IF hkost_line < 1 \/ hkost_line > Len(lines) THEN <<>>
              ELSE <<_renumber_hkost_line(lines[hkost_line], new_part_number)>>
                   \o _renumber_block_lines(_collect_until_hkppp(lines, hkost_line),
                                            new_part_number))
             \o HkostSection(lines, parts, ordered_parts, k + 1)))

\* the second loop: each contour block, renumbered, between blank lines
RECURSIVE ContourSection(_, _, _, _, _)
ContourSection(lines, parts, ordered_parts, k, output) ==
    With(extract_part_block(lines, PartsByNumber(parts)[ordered_parts[k]].part_line),
         LAMBDA contour_block :
        IF k > Len(ordered_parts) THEN output
        ELSE IF contour_block = <<>>
        THEN ContourSection(lines, parts, ordered_parts, k + 1, output)
        ELSE ContourSection(lines, parts, ordered_parts, k + 1,
                 Append((IF output # <<>> /\ Strip(output[Len(output)]) # <<>>
                         THEN Append(output, <<>>) ELSE output)
                        \o _renumber_block_lines(contour_block,
                               NewPartNumbers(ordered_parts)[ordered_parts[k]]),
                        <<>>)))

\* extract.build_reordered_program
build_reordered_program(lines, parts, order) ==
    With(OrderedParts(parts, order), LAMBDA ordered_parts :
    With(_header_lines(lines) \o HkostSection(lines, parts, ordered_parts, 1)
         \o _footer_lines(lines), LAMBDA top :
    With(ContourSection(lines, parts, ordered_parts, 1, top), LAMBDA output :
        IF parts = <<>> THEN lines
        ELSE IF output # top /\ output # <<>> /\ output[Len(output)] = <<>>
        THEN _collapse_blank_lines(Take(output, Len(output) - 1))
        ELSE _collapse_blank_lines(output))))

(***************************************************************************)
(* Programs.  The multi-part fixtures of src/server/tests/test_api.py,     *)
(* generalised to n parts, and one departure from that layout per variant. *)
(***************************************************************************)
\* the most parts of a program
MaxParts == 2

\* the longest order list of a cut-order request
MaxOrderLen == 2

\* the label step between parts, N10000, N20000, ...
PartStride == 10000

\* the anchor step between parts: (0.0,0.0), (5.0,5.0), ...
AnchorStep == 5

\* a label that is on no line
AbsentLabel == PartStride \div 2

Variants ==
    {"canonical", "labelledFooter", "footerLast", "noReference", "absentProfile",
     "infReference", "zeroProfile", "openBlock", "bareHkped", "noHkppp", "unlabelled",
     "renumbered", "blankLines", "spacedArguments"}

\* the part number of the p-th part
NumberOf(p, variant) == IF variant = "renumbered" THEN p + 1 ELSE p

AnchorText(p) == NatToDigits(AnchorStep * (p - 1)) \o <<".", "0">>

LabelText(label) == <<"N">> \o NatToDigits(label) \o <<" ">>

\* the profile reference the p-th HKOST line carries
ReferenceText(p, variant) ==
    IF p = 1 /\ variant = "absentProfile" THEN NatToDigits(NumberOf(p, variant) * PartStride + 9)
    ELSE IF p = 1 /\ variant = "infReference" THEN <<"i", "n", "f">>
    ELSE IF p = 1 /\ variant = "zeroProfile" THEN <<"0">>
    ELSE NatToDigits(NumberOf(p, variant) * PartStride + 1)

HkostLine(p, n, variant) ==
    LET sep == IF variant = "spacedArguments" THEN <<",", " ">> ELSE <<",">>
        arguments == IF p = 1 /\ variant = "noReference"
                     THEN <<AnchorText(p), AnchorText(p), <<"0", ".", "0">>>>
                     ELSE <<AnchorText(p), AnchorText(p), <<"0", ".", "0">>,
                            ReferenceText(p, variant), <<"1">>, <<"0">>, <<"0">>, <<"0">>>>
    IN  (IF p = n /\ variant = "unlabelled" THEN <<>>
         ELSE LabelText(NumberOf(p, variant) * PartStride))
        \o HKOST \o <<"(">> \o Join(arguments, sep) \o <<")">>

HkpppLine == <<"H", "K", "P", "P", "P">>

HkstoLine == <<"H", "K", "S", "T", "O", "(", "0", ",", "0", ",", "0", ")">>

HkpedLine == <<"H", "K", "P", "E", "D", "(", "0", ",", "0", ",", "0", ")">>

\* the HKSTR line of contour c of the p-th part: it starts at (p, c) with lead point (c, c)
HkstrLine(label, p, c) ==
    (IF label = <<>> THEN <<>> ELSE <<"N">> \o label \o <<" ">>)
    \o HKSTR \o <<"(", "1", ",", "1", ",">> \o NatToDigits(p) \o <<",">> \o NatToDigits(c)
    \o <<",", "0", ",">> \o NatToDigits(c) \o <<",">> \o NatToDigits(c) \o <<",", "0", ")">>

MoveLine(p, c) ==
    <<"G", "1", " ", "X">> \o NatToDigits(p + c) \o <<" ", "Y">> \o NatToDigits(p + c + 1)

\* the contours of the p-th part: two for the first part, one for the others
ContoursOf(p) == IF p = 1 THEN 2 ELSE 1

ContourLines(p, c, variant) ==
    LET label == IF p = 1 /\ c = 1 /\ variant = "zeroProfile" THEN <<"0">>
                 ELSE NatToDigits(NumberOf(p, variant) * PartStride + c)
    IN  <<HkstrLine(label, p, c), MoveLine(p, c), HkstoLine>>

BlockLines(p, n, variant) ==
    Concat([c \in 1..ContoursOf(p) |-> ContourLines(p, c, variant)])
    \o (IF p = n /\ variant = "openBlock" THEN <<>>
        ELSE IF p = 1 /\ variant = "bareHkped" THEN <<HKPED>>
        ELSE <<HkpedLine>>)

HeaderFixture == <<<<"H", "K", "L", "D", "B", "(", "2", ",", "\"", "S", "3", "0", "4", "\"", ",", "3", ",", "0", ",", "0", ",", "0", ")">>,
                   <<"H", "K", "I", "N", "I", "(", "2", ",", "2", "1", ".", "5", ",", "6", ".", "2", ",", "0", ",", "0", ",", "0", ")">>>>

FooterFixture(variant) ==
    IF variant = "labelledFooter"
    THEN <<<<"N", "2", "0", "0", "0", "0", " ", "H", "K", "E", "N", "D", "(", "0", ",", "0", ",", "0", ")">>, <<"N", "1", "0", " ", "M", "3", "0">>>>
    ELSE <<<<"H", "K", "E", "N", "D", "(", "0", ",", "0", ",", "0", ")">>, <<"M", "3", "0">>>>

\* the program of n parts in the given variant
ProgramOf(n, variant) ==
    LET gap == IF variant = "blankLines" THEN <<<<>>>> ELSE <<>>
        hkosts == Concat([p \in 1..n |->
                     <<HkostLine(p, n, variant)>>
                     \o (IF variant = "noHkppp" THEN <<>> ELSE <<HkpppLine>>)])
        blocks == Concat([p \in 1..n |-> gap \o BlockLines(p, n, variant)])
    IN  IF variant = "footerLast"
        THEN HeaderFixture \o hkosts \o blocks \o FooterFixture(variant)
        ELSE HeaderFixture \o hkosts \o FooterFixture(variant) \o blocks

Programs == {ProgramOf(n, variant) : n \in 1..MaxParts, variant \in Variants}

(***************************************************************************)
(* The indexer and the rewrite engine as a state machine: one step per     *)
(* call on the uploaded program.                                           *)
(***************************************************************************)
\* margins, in millionths: 0.0 and 0.1
Margins == {0, FracUnit \div 10}

\* the labels a request may name: every label a line of the program starts with, and one
\* that no line has
RequestLabels(lines) ==
    {LabelOf(lines[i]) : i \in {j \in DOMAIN lines : HasLabel(lines[j])}} \cup {AbsentLabel}

\* the extra_contours lists of a request: none, or one (part_line, contour_index) pair
\* naming a labelled HKOST line
ExtraChoices(lines) ==
    {<<>>} \cup
    {<<<<LabelOf(lines[i]), c>>>> :
        i \in {j \in DOMAIN lines : HasLabel(lines[j]) /\ HasCall(lines[j], HKOST)},
        c \in 1..MaxParts}

\* the order lists of a request: part numbers that exist, that do not, and repeats
Orders == UNION {[1..k -> 1..(MaxParts + 1)] : k \in 0..MaxOrderLen}

Request(op, label, margin, extras, order) ==
    [op |-> op, label |-> label, margin |-> margin, extras |-> extras, order |-> order]

NoRequest == Request("none", 0, 0, <<>>, <<>>)

NoResponse == [kind |-> "none"]

\* Each call is a function of the uploaded program and of its arguments alone, so a
\* behaviour follows one uploaded program through one call.
SummarizeParts ==
    /\ request = NoRequest
    /\ request' = Request("summarize_parts", 0, 0, <<>>, <<>>)
    /\ response' = summarize_parts(program)
    /\ UNCHANGED <<program, parserVars, releaseVars>>

ExtractPartProgram ==
    \E label \in RequestLabels(program), margin \in Margins, extras \in ExtraChoices(program) :
        /\ request = NoRequest
        /\ request' = Request("extract_part_program", label, margin, extras, <<>>)
        /\ response' = extract_part_program(program, label, margin, extras)
        /\ UNCHANGED <<program, parserVars, releaseVars>>

ExtractPartProfileProgram ==
    \E label \in RequestLabels(program), margin \in Margins :
        /\ request = NoRequest
        /\ request' = Request("extract_part_profile_program", label, margin, <<>>, <<>>)
        /\ response' = extract_part_profile_program(program, label, margin)
        /\ UNCHANGED <<program, parserVars, releaseVars>>

\* the cut-order request: summarize_parts, then build_reordered_program with its parts
BuildReorderedProgram ==
    \E order \in Orders :
        /\ request = NoRequest
        /\ request' = Request("build_reordered_program", 0, 0, <<>>, order)
        /\ response' = With(summarize_parts(program), LAMBDA summary :
                           IF summary.kind # "ok" THEN [kind |-> summary.kind, lines |-> <<>>]
                           ELSE [kind |-> "ok",
                                 lines |-> build_reordered_program(program, summary.parts,
                                                                   order)])
        /\ UNCHANGED <<program, parserVars, releaseVars>>

(***************************************************************************)
(* Part III.  The specifications.                                          *)
(***************************************************************************)
\* parse_program on a source text, then on the text its Program serializes to
Init ==
    /\ \E text \in Sources : ParserStart(text, 1, <<>>)
    /\ program = <<>>
    /\ request = NoRequest
    /\ response = NoResponse
    /\ NoJobs

Next ==
    \/ AppendCommand
    \/ RecordError
    \/ RecordComment
    \/ SkipBlank
    \/ AbortParse
    \/ ReturnProgram
    \/ to_lines

Spec == Init /\ [][Next]_vars

\* the calls of the indexer and the rewrite engine on an uploaded program
InitRewrite ==
    /\ program \in Programs
    /\ request = NoRequest
    /\ response = NoResponse
    /\ NoJobs
    /\ source = <<>>
    /\ idx = 0
    /\ commands = <<>>
    /\ errors = <<>>
    /\ comments = <<>>
    /\ unparsed = <<>>
    /\ pstatus = "idle"
    /\ pass = 0
    /\ first = <<>>

NextRewrite ==
    \/ SummarizeParts
    \/ ExtractPartProgram
    \/ ExtractPartProfileProgram
    \/ BuildReorderedProgram

SpecRewrite == InitRewrite /\ [][NextRewrite]_vars

(***************************************************************************)
(* Part IV.  The properties of the parser, under Spec.                     *)
(***************************************************************************)
\* the fields of a Command that do not depend on where its line stands
Content(c) ==
    [code |-> c.code, parameters |-> c.parameters, args |-> c.args, payload |-> c.payload,
     comment |-> c.comment, block_number |-> c.block_number]

\* the Commands that the lines of text yield when each is parsed as a text of its own
RECURSIVE CommandsAlone(_)
CommandsAlone(text) ==
    IF text = <<>> THEN <<>>
    ELSE (IF LineOutcome(Head(text), 1).kind = "command"
          THEN <<Content(LineOutcome(Head(text), 1).command)>> ELSE <<>>)
         \o CommandsAlone(Tail(text))

\* C1: parse_program never aborts, whatever the text: a line that fails is recorded as a
\* ParseError and every other line is parsed to the Command it yields on its own.
C1_NeverAborts ==
    /\ pstatus # "aborted"
    /\ [i \in DOMAIN commands |-> Content(commands[i])] = CommandsAlone(SubSeq(source, 1, idx))

\* a line of white space only
Blank(line) == Strip(line) = <<>>

\* t without a leading parenthesised comment that holds white space only
AfterEmptyParens(t) ==
    IF t # <<>> /\ t[1] = "(" /\ LStrip(Tail(t)) # <<>> /\ LStrip(Tail(t))[1] = ")"
    THEN LStrip(Tail(LStrip(Tail(t))))
    ELSE t

\* a line that is blank, or holds nothing but comments whose text is empty:
\* white space, at most one "( )", at most one trailing ";"
SaysNothing(line) ==
    \/ AfterEmptyParens(LStrip(line)) = <<>>
    \/ /\ AfterEmptyParens(LStrip(line))[1] = ";"
       /\ Blank(Tail(AfterEmptyParens(LStrip(line))))

\* the number of the first n lines of text that satisfy Test
Count(text, n, Test(_)) == Cardinality({k \in 1..n : Test(text[k])})

\* C2 as stated: once parse_program has returned, commands, comments, errors and blank
\* lines add up to the number of input lines, and errors and unparsed lines pair up.
C2_BlankLinesOnly ==
    pstatus = "returned" =>
        /\ Len(commands) + Len(comments) + Len(errors) + Count(source, Len(source), Blank)
           = Len(source)
        /\ Len(errors) = Len(unparsed)

\* C2, amended: every line the loop has consumed produced exactly one Command, or one
\* comments entry, or one ParseError with one unparsed entry, or nothing, and the lines
\* that produce nothing are the blank lines and the comment-only lines whose comment
\* text is empty.
C2_EveryLineAccounted ==
    /\ Len(commands) + Len(comments) + Len(errors) + Count(source, idx, SaysNothing) = idx
    /\ Len(errors) = Len(unparsed)
    /\ pstatus = "returned" => idx = Len(source)

\* a returned parse of two lines: a comment-only line with an empty comment, and a line
\* that failed
C2_Witness ==
    /\ pstatus = "returned"
    /\ pass = 1
    /\ Len(source) = 2
    /\ \E k \in DOMAIN source : source[k] = <<";">>
    /\ Len(errors) = 1
    /\ Len(unparsed) = 1

\* two parameter values that are equal within the 1e-4 tolerance
Close(a, b) ==
    IF a.t = "num" /\ b.t = "num"
    THEN LET va == (IF a.neg THEN -1 ELSE 1) * (a.ip * FracUnit + a.fp)
             vb == (IF b.neg THEN -1 ELSE 1) * (b.ip * FracUnit + b.fp)
         IN  va - vb <= ToleranceMicro /\ vb - va <= ToleranceMicro
    ELSE a = b

\* a Command that is a bare label
BareLabel(c) ==
    /\ c.block_number # NoBlock
    /\ c.code = <<"B", "L", "O", "C", "K">>
    /\ c.parameters = EmptyParams /\ c.args = <<>> /\ c.payload = NoText /\ c.comment = NoText

\* C6: parsing the line that to_line writes for a parsed Command gives exactly one
\* Command and no error, with the same code and the named parameters within the
\* tolerance, and a bare label N<k> is written as N<k>.
C6_RoundTrip ==
    (pass = 2 /\ pstatus # "parsing") =>
        /\ pstatus = "returned"
        /\ errors = <<>>
        /\ comments = <<>>
        /\ Len(commands) = Len(first)
        /\ \A i \in DOMAIN first :
              /\ commands[i].code = first[i].code
              /\ \A name \in DOMAIN first[i].parameters :
                    /\ name \in DOMAIN commands[i].parameters
                    /\ Close(commands[i].parameters[name], first[i].parameters[name])
              /\ BareLabel(first[i]) =>
                    source[i] = <<"N">> \o NatToDigits(first[i].block_number)

(***************************************************************************)
(* Part IVa.  The grammar of a line: parse_program on lines that exercise  *)
(* required parameters, letter case, quoted arguments, WHEN payloads,      *)
(* parenthetical comments and calls, under SpecGrammar.                    *)
(***************************************************************************)
GrammarCorpus == {
    <<"M", "3", " ", "S", "1", "0", "0">>,   \* M3 S100: M3 with its required parameter
    <<"M", "3">>,   \* M3: M3 without it
    <<"M", "3", " ", "X", "1">>,   \* M3 X1: M3 with another parameter only
    <<"M", "3", "(", "1", "0", "0", ")">>,   \* M3(100): M3 as a call
    <<"N", "5", " ", "m", "3", " ", "S", "1", " ", ";", " ", "o", "n">>,   \* N5 m3 S1 ; on: a labelled lower-case M3 with a comment
    <<"V", "S">>,   \* VS: VS, VE, BP, RD with and without P
    <<"V", "E", " ", "P", "1">>,   \* VE P1
    <<"V", "E", " ", "F", "2">>,   \* VE F2
    <<"B", "P", " ", "P", "3">>,   \* BP P3
    <<"B", "P">>,   \* BP
    <<"R", "D", " ", "P", "0", ".", "5">>,   \* RD P0.5
    <<"R", "D">>,   \* RD
    <<"M", "5">>,   \* M5: a known code that requires nothing
    <<"G", "1", " ", "X", "1">>,   \* G1 X1: a command and the same line in lower case
    <<"g", "1", " ", "x", "1">>,   \* g1 x1
    <<"N", "2", "0">>,   \* N20: a label and the same label in lower case
    <<"n", "2", "0">>,   \* n20
    <<"w", "h", "e", "n", " ", "$", "r", "1", " ", "d", "o", " ", "x">>,   \* when $r1 do x: a lower-case WHEN
    <<"H", "K", "X", "(", "\"", "1", ".", "5", "\"", ")">>,   \* HKX("1.5"): quoted arguments: a number, text, a comma, a blank, nothing
    <<"H", "K", "X", "(", "\"", "S", "3", "0", "4", "\"", ",", "1", ".", "5", ",", "a", "b", "c", ")">>,   \* HKX("S304",1.5,abc)
    <<"H", "K", "X", "(", "\"", "a", ",", "b", "\"", ")">>,   \* HKX("a,b")
    <<"H", "K", "X", "(", "\"", " ", "1", "\"", ")">>,   \* HKX(" 1")
    <<"H", "K", "X", "(", "\"", "\"", ")">>,   \* HKX("")
    <<"W", "H", "E", "N", " ", "(", "$", "A", "C", "_", "T", "I", "M", "E", ">", "0", ".", "0", "0", "5", ")", "A", "N", "D", "(", "$", "R", "7", "1", "<", "$", "R", "7", "2", ")", " ", "D", "O", " ", "$", "A", "_", "D", "B", "B", "[", "1", "0", "]", "=", "1">>,   \* WHEN ($AC_TIME>0.005)AND($R71<$R72) DO $A_DBB[10]=1: the WHEN line of the tests
    <<"W", "H", "E", "N", " ", "$", "R", "7", "1", "<", "$", "R", "7", "2", " ", "D", "O", " ", "X", " ", ";", " ", "c">>,   \* WHEN $R71<$R72 DO X ; c: a WHEN payload with a ;-comment
    <<"W", "H", "E", "N">>,   \* WHEN: WHEN alone
    <<"N", "1", "0", " ", "W", "H", "E", "N", "(", "A", ")">>,   \* N10 WHEN(A): a labelled WHEN with a parenthesis right after it
    <<>>,   \* (empty): a blank line
    <<";", " ", "h", "e", "a", "d", "e", "r">>,   \* ; header: a comment-only line
    <<"G", "1", " ", "X">>,   \* G1 X: a malformed parameter
    <<"H", "K", "X", "(", "i", "n", "f", ")">>,   \* HKX(inf): an argument that float() turns into infinity
    <<"G", "0", " ", "X", "0", " ", "(", "r", "a", "p", "i", "d", " ", "m", "o", "v", "e", ")">>,   \* G0 X0 (rapid move): a parenthetical comment after the parameters
    <<"G", "1", " ", "X", "1", " ", "(", "o", "o", "p", "s">>,   \* G1 X1 (oops: an unclosed parenthetical comment
    <<"(", "a", ")">>,   \* (a): a line that is only a parenthetical comment
    <<"G", "1", " ", "(", "a", ")", " ", "X", "1">>,   \* G1 (a) X1: a comment between the code and a parameter
    <<"G", "1", " ", "X", "1", " ", "(", "a", ")", " ", "(", "b", ")">>,   \* G1 X1 (a) (b): two parenthetical comments
    <<"H", "K", "X", "(", "1", ")", " ", "(", "n", "o", "t", "e", ")">>,   \* HKX(1) (note): a comment after a macro call
    <<"N", "1", "0", " ", "(", "c", ")", " ", "H", "K", "X", "(", "1", ")">>,   \* N10 (c) HKX(1): a comment before a macro call
    <<"G", "1", "(", "5", ")">>   \* G1(5): a call of a code without the vendor prefix
}

GrammarSources == UNION {[1..n -> GrammarCorpus] : n \in 0..MaxLines}

InitGrammar ==
    /\ \E text \in GrammarSources : ParserStart(text, 1, <<>>)
    /\ program = <<>>
    /\ request = NoRequest
    /\ response = NoResponse
    /\ NoJobs

SpecGrammar == InitGrammar /\ [][Next]_vars

\* the entries of a list of Commands or ParseErrors that came from line k
FromLine(entries, k) == SelectSeq(entries, LAMBDA entry : entry.line_number = k)

\* the Command that _parse_line_content returns for a line, before its required
\* parameters are looked at; <<>> where the line yields none
ParsedCommand(line, k) ==
    With(_strip_comments(line), LAMBDA sc :
    With(_parse_line_content(sc.v.content, k, _combine_comments(sc.v.trailing, sc.v.paren), line),
         LAMBDA parsed :
        IF sc.kind = "ok" /\ Strip(sc.v.content) # <<>> /\ parsed.kind = "ok"
        THEN <<parsed.v>> ELSE <<>>))

\* the codes that require a parameter, and the parameter
RequiredOf(code) ==
    IF code = <<"M", "3">> THEN "S"
    ELSE IF code \in {<<"V", "S">>, <<"V", "E">>, <<"B", "P">>, <<"R", "D">>} THEN "P"
    ELSE ""

\* C13: for a line that parses to a command M3, VS, VE, BP or RD: without its required
\* parameter (S for M3, P for the others) parse_program records one ParseError that
\* names the missing parameter and appends no Command for the line; with it, the
\* Command is appended and no error is recorded.
C13_RequiredParameterEnforced ==
    \A k \in 1..idx :
        With(ParsedCommand(source[k], k), LAMBDA parsed :
            (parsed # <<>> /\ RequiredOf(parsed[1].code) # "") =>
                IF RequiredOf(parsed[1].code) \in DOMAIN parsed[1].parameters
                THEN /\ FromLine(commands, k) = parsed
                     /\ FromLine(errors, k) = <<>>
                ELSE /\ FromLine(commands, k) = <<>>
                     /\ Len(FromLine(errors, k)) = 1
                     /\ FromLine(errors, k)[1].message = "Missing required parameter(s)"
                     /\ FromLine(errors, k)[1].missing = <<RequiredOf(parsed[1].code)>>
                     /\ FromLine(errors, k)[1].line_text = source[k])

\* a returned parse of "M3" and "M3 S100": one error that names S, then one Command
C13_Witness ==
    /\ pstatus = "returned" /\ pass = 1
    /\ source = <<<<"M", "3">>, <<"M", "3", " ", "S", "1", "0", "0">>>>
    /\ Len(errors) = 1 /\ errors[1].missing = <<"S">>
    /\ Len(commands) = 1 /\ commands[1].code = <<"M", "3">>
    /\ "S" \in DOMAIN commands[1].parameters

\* line_number rises strictly along a list of Commands or ParseErrors
StrictlyIncreasing(entries) ==
    \A i, j \in DOMAIN entries : i < j => entries[i].line_number < entries[j].line_number

\* C14: errors and commands stand in source line order: line_number rises strictly along
\* errors and along commands, and the line_number of every entry is the 1-based number
\* of the line it came from.
C14_SourceLineOrder ==
    /\ StrictlyIncreasing(errors)
    /\ StrictlyIncreasing(commands)
    /\ \A i \in DOMAIN errors :
          /\ errors[i].line_number \in 1..idx
          /\ errors[i].line_text = source[errors[i].line_number]
          /\ LineOutcome(source[errors[i].line_number], errors[i].line_number).kind = "error"
    /\ \A i \in DOMAIN commands :
          /\ commands[i].line_number \in 1..idx
          /\ commands[i].raw = source[commands[i].line_number]
          /\ LineOutcome(source[commands[i].line_number], commands[i].line_number).kind = "command"

\* a returned parse of two different lines that both fail
C14_Witness ==
    /\ pstatus = "returned" /\ pass = 1
    /\ Len(errors) = 2
    /\ errors[1].line_number = 1 /\ errors[2].line_number = 2
    /\ source[1] # source[2]

\* the line with its letters upper-cased outside quoted strings
RECURSIVE UpperOutsideQuotesFrom(_, _, _)
UpperOutsideQuotesFrom(line, i, in_quotes) ==
    IF i > Len(line) THEN <<>>
    ELSE IF line[i] = "\"" THEN <<line[i]>> \o UpperOutsideQuotesFrom(line, i + 1, ~in_quotes)
    ELSE <<IF in_quotes THEN line[i] ELSE UpperChar(line[i])>>
         \o UpperOutsideQuotesFrom(line, i + 1, in_quotes)

UpperOutsideQuotes(line) == UpperOutsideQuotesFrom(line, 1, FALSE)

\* what parse_program recorded for line k agrees with the outcome of the upper-cased line
SameAsUpperCased(k) ==
    With(LineOutcome(UpperOutsideQuotes(source[k]), k), LAMBDA upper :
        IF upper.kind = "command"
        THEN /\ FromLine(errors, k) = <<>>
             /\ Len(FromLine(commands, k)) = 1
             /\ FromLine(commands, k)[1].code = upper.command.code
             /\ FromLine(commands, k)[1].block_number = upper.command.block_number
             /\ FromLine(commands, k)[1].parameters = upper.command.parameters
        ELSE IF upper.kind = "error"
        THEN FromLine(commands, k) = <<>> /\ Len(FromLine(errors, k)) = 1
        ELSE FromLine(commands, k) = <<>> /\ FromLine(errors, k) = <<>>)

\* C18: the line grammar is case-insensitive for letters: for every line, parse_program
\* gives the same outcome for the line and for the line with its letters upper-cased
\* outside quoted strings: the same code, block number and parameters, or an error in
\* both cases.
C18_CaseInsensitive ==
    \A k \in 1..idx : SameAsUpperCased(k)

\* the text of a line that is a function-call macro and nothing else: the text between
\* the parentheses of "CODE(...)", as <<inner>>, or <<>> for any other line
MacroInner(line) ==
    With(Find(line, "(", 1), LAMBDA open :
        IF /\ open > 1 /\ line[Len(line)] = ")"
           /\ \A i \in 1..(open - 1) : IsUpper(line[i])
           /\ \A i \in (open + 1)..(Len(line) - 1) : line[i] \notin {"(", ")", ";", "\\"}
        THEN <<SubSeq(line, open + 1, Len(line) - 1)>> ELSE <<>>)

\* the arguments as written: the text between the parentheses split at the commas
\* outside double quotes, each piece stripped
WrittenArguments(inner) == SplitParamsFrom(inner, 1, <<>>, FALSE)

IsQuoted(text) ==
    /\ Len(text) >= 2 /\ text[1] = "\"" /\ text[Len(text)] = "\""
    /\ \A i \in 2..(Len(text) - 1) : text[i] # "\""

IsUnquoted(text) ==
    /\ text # <<>> /\ \A i \in DOMAIN text : text[i] # "\""
    /\ FloatOf(text).k \notin {"inf", "nan"}

\* the value the grammar gives a written argument: Text of the characters between the
\* quotes, or for an unquoted argument a Number when it is numeric and Text otherwise
StatedArgument(text) ==
    IF IsQuoted(text) THEN TextVal(SubSeq(text, 2, Len(text) - 1))
    ELSE IF FloatOf(text).k = "bad" THEN TextVal(text)
    ELSE _normalize_value(FloatOf(text))

\* C19: in a function-call macro every argument written in double quotes is stored as
\* Text holding exactly the characters between the quotes, also when they look like a
\* number, and every unquoted argument is stored as a Number when it is numeric and as
\* Text otherwise.
C19_QuotedArgumentsAreText ==
    \A k \in 1..idx :
        With(MacroInner(source[k]), LAMBDA inner :
            (/\ inner # <<>>
             /\ \A i \in DOMAIN WrittenArguments(inner[1]) :
                   IsQuoted(WrittenArguments(inner[1])[i]) \/ IsUnquoted(WrittenArguments(inner[1])[i]))
            => /\ Len(FromLine(commands, k)) = 1
               /\ FromLine(commands, k)[1].args =
                     [i \in DOMAIN WrittenArguments(inner[1]) |->
                         StatedArgument(WrittenArguments(inner[1])[i])])

\* the text that follows the command token WHEN on a line, a trailing ;-comment aside,
\* as <<text>>; <<>> when the command token of the line is not WHEN or nothing follows
TextAfterWhen(line) ==
    With(Strip(IF Find(line, ";", 1) = 0 THEN line ELSE Take(line, Find(line, ";", 1) - 1)),
         LAMBDA content :
    With(_extract_block_number(content), LAMBDA block :
    With(IF block.remainder = NoText THEN <<>> ELSE block.remainder, LAMBDA remainder :
    With(Strip(Drop(remainder, 4)), LAMBDA rest :
        IF /\ Len(remainder) > 4 /\ Upper(Take(remainder, 4)) = <<"W", "H", "E", "N">>
           /\ ~IsAlnum(remainder[5]) /\ rest # <<>>
        THEN <<rest>> ELSE <<>>))))

\* C20: for every line whose command token is WHEN followed by non-empty text,
\* parse_program yields a WHEN Command whose payload is exactly the text that follows
\* WHEN on that line, a trailing ;-comment aside, including any parenthesised
\* condition such as ($AC_TIME>0.005).
C20_WhenPayloadVerbatim ==
    \A k \in 1..idx :
        With(TextAfterWhen(source[k]), LAMBDA text :
            text # <<>> =>
                /\ Len(FromLine(commands, k)) = 1
                /\ FromLine(commands, k)[1].code = <<"W", "H", "E", "N">>
                /\ FromLine(commands, k)[1].payload = text[1])

\* the content of a line: the text before the first ";", stripped
ContentOf(line) ==
    Strip(IF Find(line, ";", 1) = 0 THEN line ELSE Take(line, Find(line, ";", 1) - 1))

\* a "(" that opens a comment: at the start of the content or directly after white space
OpensComment(content, i) ==
    content[i] = "(" /\ (i = 1 \/ IsSpace(content[i - 1]))

\* the position that closes the argument list opened at position i, 0 when there is none
ArgumentsClose(content, i) ==
    With(CloseIndex(Drop(content, i - 1), 1, 0), LAMBDA close :
        IF close = 0 THEN 0 ELSE i - 1 + close)

\* every comment and every argument list of the content, from position i on, is closed
RECURSIVE GroupsClosedFrom(_, _)
GroupsClosedFrom(content, i) ==
    IF i > Len(content) THEN TRUE
    ELSE IF content[i] # "(" THEN GroupsClosedFrom(content, i + 1)
    ELSE IF OpensComment(content, i)
    THEN Find(content, ")", i + 1) > 0 /\ GroupsClosedFrom(content, Find(content, ")", i + 1) + 1)
    ELSE ArgumentsClose(content, i) > 0 /\ GroupsClosedFrom(content, ArgumentsClose(content, i) + 1)

\* the content without its comments: every group that opens a comment is replaced by
\* a space, every argument list is kept whole
RECURSIVE WithoutCommentsFrom(_, _)
WithoutCommentsFrom(content, i) ==
    IF i > Len(content) THEN <<>>
    ELSE IF content[i] # "(" THEN <<content[i]>> \o WithoutCommentsFrom(content, i + 1)
    ELSE IF OpensComment(content, i)
    THEN <<" ">> \o WithoutCommentsFrom(content, Find(content, ")", i + 1) + 1)
    ELSE SubSeq(content, i, ArgumentsClose(content, i))
         \o WithoutCommentsFrom(content, ArgumentsClose(content, i) + 1)

WithoutComments(line) == Strip(WithoutCommentsFrom(ContentOf(line), 1))

\* what parse_program recorded for line k is what the given line parses to, the
\* comment and the raw text aside
RecordedAs(k, line) ==
    With(LineOutcome(line, k), LAMBDA stated :
        IF stated.kind = "command"
        THEN /\ FromLine(errors, k) = <<>>
             /\ Len(FromLine(commands, k)) = 1
             /\ FromLine(commands, k)[1].code = stated.command.code
             /\ FromLine(commands, k)[1].block_number = stated.command.block_number
             /\ FromLine(commands, k)[1].parameters = stated.command.parameters
             /\ FromLine(commands, k)[1].args = stated.command.args
             /\ FromLine(commands, k)[1].payload = stated.command.payload
        ELSE IF stated.kind = "error"
        THEN FromLine(commands, k) = <<>> /\ Len(FromLine(errors, k)) = 1
        ELSE FromLine(commands, k) = <<>> /\ FromLine(errors, k) = <<>>)

\* C21: before a line is parsed, every well-formed parenthesised group whose "(" stands
\* at the start of the content or directly after white space is removed as a comment,
\* wherever it stands on the line, and the argument list of a function-call macro is
\* never removed: the line is recorded as the line without its comments parses.
C21_EveryCommentRemoved ==
    \A k \in 1..idx :
        GroupsClosedFrom(ContentOf(source[k]), 1) => RecordedAs(k, WithoutComments(source[k]))

\* C22: a line is parsed as a function-call macro, with positional args, only when its
\* command token starts with the vendor prefix HK and is directly followed by "(": a
\* command token without the prefix followed by "(" is given no positional args.
C22_OnlyVendorMacrosHaveArgs ==
    \A i \in DOMAIN commands :
        commands[i].args # <<>> =>
            /\ StartsWith(commands[i].code, <<"H", "K">>)
            /\ Contains(Upper(commands[i].raw), commands[i].code \o <<"(">>)

(***************************************************************************)
(* Part V.  The properties of the indexer and the rewrite engine, under    *)
(* SpecRewrite.                                                            *)
(***************************************************************************)
\* the positions of the lines that satisfy Test, in line order
Where(lines, Test(_)) == SelectSeq([j \in DOMAIN lines |-> j], LAMBDA j : Test(lines[j]))

\* the positions of the lines that start with the label
Bearers(lines, label) == {j \in DOMAIN lines : HasLabel(lines[j]) /\ LabelOf(lines[j]) = label}

\* the line a label resolves to, 0 when it is on no line
Resolve(lines, label) == IF Bearers(lines, label) = {} THEN 0 ELSE Max(Bearers(lines, label))

\* the first line at or after position from that mentions HKPED, 0 when there is none
HkpedFrom(lines, from) ==
    IF \E j \in from..Len(lines) : Contains(Upper(lines[j]), HKPED)
    THEN Min({j \in from..Len(lines) : Contains(Upper(lines[j]), HKPED)})
    ELSE 0

\* the text of a line after its label
Unlabelled(line) == StripLabelContent(Strip(line))

\* the arguments of the HKOST call of a line
HkostArguments(line) == StripAll(SplitOn(CallMatch(line, HKOST).params, ","))

Extracting == request.op \in {"extract_part_program", "extract_part_profile_program"}

\* the lines an extraction works on, the line the requested label names, the line its
\* profile reference names and the HKPED line that closes the span (0: there is none)
Body == ContentLines(program)

Target == Resolve(Body, request.label)

Reference == IF Target = 0 THEN None ELSE _extract_profile_line(Body[Target]).v

ProfileStart == IF Reference = None THEN 0 ELSE Resolve(Body, Reference[1])

ProfileEnd == IF ProfileStart = 0 THEN 0 ELSE HkpedFrom(Body, ProfileStart)

\* C3: extract_part_program and extract_part_profile_program fail with a ValueError and
\* no result when the requested label is on no line, when the profile label of the HKOST
\* line is on no line, and when no HKPED line stands at or after the profile line; in
\* every other case they return a result.
C3_FailsInThreeCasesOnly ==
    Extracting =>
        IF Target = 0 \/ ProfileStart = 0 \/ ProfileEnd = 0
        THEN response.kind = "ValueError" /\ response.lines = <<>>
        ELSE response.kind = "ok"

Reordered == request.op = "build_reordered_program" /\ response.kind = "ok"

\* the positions of the HKOST lines of a program
HkostLines(lines) == Where(lines, LAMBDA l : HasCall(Strip(l), HKOST))

\* the first HKSTR line of the contour block that the HKOST line at position h of lines
\* refers to, 0 when the reference leads to no block
FirstHkstr(lines, h) ==
    LET stripped == StripAll(lines)
        reference == _extract_profile_line(stripped[h]).v
        start == IF reference = None THEN 0 ELSE Resolve(stripped, reference[1])
        hits == {j \in DOMAIN lines : j >= start /\ HasCall(stripped[j], HKSTR)}
    IN  IF start = 0 \/ hits = {} THEN 0 ELSE Min(hits)

\* two HKOST lines that differ in nothing but their label and their profile reference
SamePart(a, b) ==
    /\ Len(HkostArguments(a)) = Len(HkostArguments(b))
    /\ \A k \in DOMAIN HkostArguments(a) : k # 4 => HkostArguments(a)[k] = HkostArguments(b)[k]

\* C4: in the output of build_reordered_program every HKOST line carries the anchor
\* arguments of the part it was written from, and its renumbered profile reference
\* resolves, in the output, to the first HKSTR line of the original contour block of
\* that part.
C4_ReferencesStayConsistent ==
    Reordered =>
        \A o \in Range(HkostLines(response.lines)) :
            \E h \in Range(HkostLines(program)) :
                /\ SamePart(response.lines[o], program[h])
                /\ FirstHkstr(program, h) # 0 =>
                      /\ FirstHkstr(response.lines, o) # 0
                      /\ Unlabelled(response.lines[FirstHkstr(response.lines, o)])
                         = Unlabelled(program[FirstHkstr(program, h)])

\* the lines that are not blank
NonBlank(lines) == SelectSeq(lines, LAMBDA l : Strip(l) # <<>>)

\* the parts' own numbers in their original sequence
IdentityOrder(lines) ==
    [k \in DOMAIN HkostLines(lines) |->
        IF HasLabel(Strip(lines[HkostLines(lines)[k]]))
        THEN _part_number_from_label(LabelOf(Strip(lines[HkostLines(lines)[k]])))
        ELSE k]

CarriesPart(digits, i) ==
    LET width == _label_prefix_length(Len(digits))
        number == NatToDigits(i)
    IN  /\ Len(number) <= width
        /\ Take(digits, width) = [j \in 1..(width - Len(number)) |-> "0"] \o number

\* a line that has no label, or an upper-case label of part i
LabelledFor(line, i) == HasLabel(line) => line[1] = "N" /\ CarriesPart(LabelDigits(line), i)

\* The layout that build_reordered_program itself writes, on the lines that are not
\* blank: the HKOST lines of parts 1..k, each followed by its trailer up to its HKPPP
\* line and then at once by the next HKOST line; after the last HKPPP line the footer,
\* which holds no HKSTR call; then the contour blocks of parts 1..k in that order and
\* nothing else, each from the one line that bears the profile label of its part, an
\* HKSTR line, to the first line that mentions HKPED, an HKPED(...) call.  Every HKOST
\* line starts with an upper-case label without leading zeros that no earlier HKOST line
\* starts with, holds one HKOST call, and writes its arguments without white space, the
\* fourth in plain digits; every label of part i carries i as its prefix.
CanonicalLayout(lines) ==
    LET L == NonBlank(lines)
        hk == Where(L, LAMBDA l : HasCall(l, HKOST))
        k == Len(hk)
        Mentions(j, name) == Contains(Upper(L[j]), name)
        pp(i) == Min({j \in (hk[i] + 1)..Len(L) : Mentions(j, HKPPP)})
        arguments(i) == SplitOn(CallMatch(L[hk[i]], HKOST).params, ",")
        reference(i) == arguments(i)[4]
        rest == (pp(k) + 1)..Len(L)
        fs == Min({j \in rest : HasCall(Strip(L[j]), HKSTR)} \cup {Len(L) + 1})
        ends == SelectSeq([j \in DOMAIN L |-> j], LAMBDA j : j >= fs /\ Mentions(j, HKPED))
        b(i) == IF i = 1 THEN fs ELSE ends[i - 1] + 1
        HkostLineOk(i) ==
            /\ L[hk[i]][1] = "N"
            /\ HasLabel(L[hk[i]])
            /\ CarriesPart(LabelDigits(L[hk[i]]), i)
            /\ LabelDigits(L[hk[i]]) = NatToDigits(LabelOf(L[hk[i]]))
            /\ \A j \in 1..(hk[i] - 1) :
                  ~(/\ StartsWith(Upper(Strip(L[j])), <<"N">> \o LabelDigits(L[hk[i]]))
                    /\ HasCall(L[j], HKOST))
            /\ ~HasCall(Drop(L[hk[i]], CallMatch(L[hk[i]], HKOST).close), HKOST)
            /\ Len(arguments(i)) >= 4
            /\ \A a \in DOMAIN arguments(i) : arguments(i)[a] = Strip(arguments(i)[a])
            /\ \A a \in 1..4 : arguments(i)[a] # <<>>
            /\ \A c \in Range(reference(i)) : IsDigit(c)
            /\ reference(i)[1] # "0"
            /\ CarriesPart(reference(i), i)
        TrailerOk(i) ==
            /\ \E j \in (hk[i] + 1)..Len(L) : Mentions(j, HKPPP)
            /\ i < k => hk[i + 1] = pp(i) + 1
            /\ \A j \in (hk[i] + 1)..pp(i) : LabelledFor(L[j], i)
        BlockOk(i) ==
            /\ HasCall(Strip(L[b(i)]), HKSTR)
            /\ L[b(i)][1] = "N"
            /\ HasLabel(L[b(i)])
            /\ LabelOf(L[b(i)]) = DigitsToNat(reference(i))
            /\ Bearers(StripAll(L), DigitsToNat(reference(i))) = {b(i)}
            /\ HasCall(Strip(L[ends[i]]), HKPED)
            /\ \A j \in b(i)..ends[i] : LabelledFor(L[j], i)
    IN  k = 0 \/
        /\ \A i \in 1..k : HkostLineOk(i) /\ TrailerOk(i)
        /\ \A j \in rest : ~Mentions(j, HKPPP)
        /\ Len(ends) = k
        /\ ends[k] = Len(L)
        /\ \A i \in 1..k : BlockOk(i)

C7_OneSummaryPerHkostLine ==
    request.op = "summarize_parts" =>
        /\ response.kind = "ok"
        /\ Len(response.parts) = Len(HkostLines(program))
        /\ \A k \in DOMAIN response.parts :
              LET lines == StripAll(program)
                  part == response.parts[k]
                  reference == _extract_profile_line(lines[HkostLines(program)[k]]).v
                  start == IF reference = None THEN 0 ELSE Resolve(lines, reference[1])
                  closes == {j \in start..Len(lines) : HasCall(lines[j], HKPED)}
                  end == IF closes = {} THEN Len(lines) ELSE Min(closes)
              IN  /\ part.hkost_line = HkostLines(program)[k]
                  /\ start # 0 =>
                        part.contours
                        = Cardinality({j \in start..end : HasCall(lines[j], HKSTR)})
                  /\ start = 0 =>
                        /\ part.contours = 0
                        /\ part.start_line = part.hkost_line
                        /\ part.end_line = part.hkost_line

\* the HKOST line that lends a contour block to the request: the first line that starts
\* with the label the request names and calls HKOST
Lender == Min({j \in DOMAIN Body : /\ StartsWith(Upper(Strip(Body[j])),
                                                 <<"N">> \o NatToDigits(request.extras[1][1]))
                                   /\ HasCall(Body[j], HKOST)})

\* the lines borrowed for the request
Borrowed == extract_part_contour_block(Body, request.extras[1][1], request.extras[1][2])

\* the request borrowed a contour block of another part and the call returned
Borrowing ==
    /\ request.op = "extract_part_program"
    /\ response.kind = "ok"
    /\ request.extras # <<>>
    /\ Borrowed # <<>>
    /\ Lender # Target

\* the x or y coordinates of a line, in millionths, moved by d
Moved(coordinates, d) == [k \in DOMAIN coordinates |-> coordinates[k] + d]

\* C8: every X/Y coordinate of a borrowed line in the output is the coordinate of the
\* lender's line moved by the vector from the borrowing part's anchor to the lender's.
C8_BorrowedContourIsTranslated ==
    Borrowing =>
        LET from == Len(_header_lines(Body)) + 1 + Len(_collect_until_hkppp(Body, Target))
                    + (ProfileEnd - ProfileStart)
            dx == Micro(_extract_hkost_details(Body[Lender]).anchor_x)
                  - Micro(_extract_hkost_details(Body[Target]).anchor_x)
            dy == Micro(_extract_hkost_details(Body[Lender]).anchor_y)
                  - Micro(_extract_hkost_details(Body[Target]).anchor_y)
        IN  \A i \in DOMAIN Borrowed :
                /\ LineCoords(response.lines[from + i]).xs = Moved(LineCoords(Borrowed[i]).xs, dx)
                /\ LineCoords(response.lines[from + i]).ys = Moved(LineCoords(Borrowed[i]).ys, dy)

\* the lines of a program before its first HKOST line
HeaderOf(lines) ==
    Take(lines, Min({j \in DOMAIN lines : HasCall(lines[j], HKOST)} \cup {Len(lines) + 1}) - 1)

\* the lines after position h up to and including the next line that mentions HKPPP, or
\* up to the end where none follows
TrailerOf(lines, h) ==
    LET stops == {j \in (h + 1)..Len(lines) : Contains(Upper(lines[j]), HKPPP)}
    IN  SubSeq(lines, h + 1, IF stops = {} THEN Len(lines) ELSE Min(stops))

\* the last line that mentions HKPPP, 0 when there is none
LastHkppp(lines) ==
    Max({j \in DOMAIN lines : Contains(Upper(lines[j]), HKPPP)} \cup {0})

\* the lines after the last HKPPP line that lie in no HKSTR..HKPED block
FooterOf(lines) ==
    LET last == IF LastHkppp(lines) = 0 THEN Len(lines) ELSE LastHkppp(lines)
        InBlock(j) == \E a \in (last + 1)..j :
                          /\ HasCall(Strip(lines[a]), HKSTR)
                          /\ \A m \in a..(j - 1) : ~Contains(Upper(lines[m]), HKPED)
        kept == SelectSeq([j \in 1..(Len(lines) - last) |-> last + j], LAMBDA j : ~InBlock(j))
    IN  [k \in DOMAIN kept |-> lines[kept[k]]]

\* header, HKOST line, trailer, contour span and footer of the requested part
Pieces ==
    HeaderOf(Body) \o <<Body[Target]>> \o TrailerOf(Body, Target)
    \o SubSeq(Body, ProfileStart, ProfileEnd) \o FooterOf(Body)

\* the contour span of the part of the HKOST line at position h, as a set of positions
SpanOf(lines, h) ==
    LET reference == _extract_profile_line(lines[h]).v
        start == IF reference = None THEN 0 ELSE Resolve(lines, reference[1])
    IN  IF start = 0 THEN {}
        ELSE start..(IF HkpedFrom(lines, start) = 0 THEN Len(lines) ELSE HkpedFrom(lines, start))

\* the output holds one HKOST line, and no HKSTR line outside the span of the target
OnePartOnly(output) ==
    /\ Cardinality({i \in DOMAIN output : HasCall(output[i], HKOST)}) = 1
    /\ \A i \in DOMAIN output :
          HasCall(Strip(output[i]), HKSTR) =>
              /\ \E j \in ProfileStart..ProfileEnd : output[i] = Body[j]
              /\ \A h \in Range(HkostLines(Body)) \ {Target} :
                    \A j \in SpanOf(Body, h) : output[i] # Body[j]

Extracted == request.op = "extract_part_program" /\ response.kind = "ok"

HkiniRewritten(line, width, height) ==
    LET RECURSIVE Each(_)
        arguments == StripAll(SplitOn(CallMatch(line, HKINI).params, ","))
        written == IF Len(arguments) < 3 THEN arguments
                   ELSE <<arguments[1], width, height>> \o Drop(arguments, 3)
        Each(text) ==
            IF ~HasCall(text, HKINI) THEN text
            ELSE Take(text, CallMatch(text, HKINI).at - 1)
                 \o HKINI \o <<"(">> \o Join(written, <<",">>) \o <<")">>
                 \o Each(Drop(text, CallMatch(text, HKINI).close))
    IN  Each(line)

\* a number of millionths in at most four decimals, rounded, without trailing zeros
Decimal(value) ==
    LET q == (value + 50) \div 100
        whole == NatToDigits(q \div 10000)
        fraction == RStripZeros([i \in 1..4 |-> DigitChar((q \div (10 ^ (4 - i))) % 10)])
    IN  IF fraction = <<>> THEN whole ELSE whole \o <<".">> \o fraction

\* every HKOST line has an HKPPP line before the next HKOST line, every HKSTR line and
\* the span of the target come after the last HKPPP line, and the span of the target
\* shares no line with the span of another part
PartsApart ==
    /\ \A h \in Range(HkostLines(Body)) :
          \E j \in (h + 1)..Len(Body) :
              /\ Contains(Upper(Body[j]), HKPPP)
              /\ \A m \in (h + 1)..j : ~HasCall(Body[m], HKOST)
    /\ \A j \in 1..LastHkppp(Body) : ~HasCall(Strip(Body[j]), HKSTR)
    /\ ProfileStart > LastHkppp(Body)
    /\ \A h \in Range(HkostLines(Body)) \ {Target} :
          SpanOf(Body, h) \cap (ProfileStart..ProfileEnd) = {}

\* the lines borrowed for the request, block after block
AllBorrowed == Concat(ExtraBlocks(Body, request.extras))

Dedup(s) ==
    LET keep == SelectSeq([i \in DOMAIN s |-> i], LAMBDA i : \A j \in 1..(i - 1) : s[j] # s[i])
    IN  [k \in DOMAIN keep |-> s[keep[k]]]

\* C10: whatever the order list, the output holds the HKOST line and the contour block
\* of every part exactly once, the requested parts first in the order requested, then
\* the others in their original order, and the i-th of them is renumbered to i.
C10_VisitsEveryPartOnce ==
    Reordered =>
        LET numbers == IdentityOrder(program)
            known == SelectSeq(request.order, LAMBDA n : n \in Range(numbers))
            visiting == Dedup(known \o numbers)
            origin(k) == HkostLines(program)[CHOOSE p \in DOMAIN numbers :
                                                 numbers[p] = visiting[k]]
            out == HkostLines(response.lines)
        IN  /\ Len(out) = Len(visiting)
            /\ \A k \in DOMAIN out :
                  /\ SamePart(response.lines[out[k]], program[origin(k)])
                  /\ HasLabel(Strip(response.lines[out[k]])) =>
                        _part_number_from_label(LabelOf(Strip(response.lines[out[k]]))) = k
                  /\ FirstHkstr(program, origin(k)) # 0 =>
                        Cardinality({j \in DOMAIN response.lines :
                            /\ HasCall(Strip(response.lines[j]), HKSTR)
                            /\ Unlabelled(response.lines[j])
                               = Unlabelled(program[FirstHkstr(program, origin(k))])}) = 1

(***************************************************************************)
(* Part VI.  The extra-contour references of a part request,               *)
(* src/server/app/main.py: the references the user names, the references   *)
(* that the common-neighbour detection adds, and their merge.  The contour *)
(* geometry is held in tenths of a unit, which every coordinate of the     *)
(* programs below is a multiple of.                                        *)
(***************************************************************************)
MAX_EXTRA_CONTOURS == 5

\* tenths in a unit
GeoUnit == 10

\* COMMON_NEIGHBOR_DISTANCE_TOLERANCE = 0.1, in tenths
COMMON_NEIGHBOR_DISTANCE_TOLERANCE == 1

\* CONTOUR_CLOSE_EPSILON = 0.001: the number of epsilons in a tenth
EpsilonsPerTenth == 100

ExtraContourRef(part_number, part_line, contour_index) ==
    [part_number |-> part_number, part_line |-> part_line, contour_index |-> contour_index]

\* s[:n]
Prefix(s, n) == SubSeq(s, 1, IF n < Len(s) THEN n ELSE Len(s))

\* a finite float in tenths
Tenths(f) == Micro(f) \div (FracUnit \div GeoUnit)

Point(x, y) == [x |-> x, y |-> y]

\* ^(?P<part>\d+)\s*\.\s*(?P<contour>\d+)$ on a token
RefPatternMatch(token) ==
    With(SpanDigits(token), LAMBDA n1 :
    With(Drop(token, n1 + SpanSpace(Drop(token, n1))), LAMBDA dotted :
    With(Drop(dotted, 1 + SpanSpace(Drop(dotted, 1))), LAMBDA digits :
        [matched |-> /\ n1 >= 1
                     /\ dotted # <<>> /\ dotted[1] = "."
                     /\ digits # <<>> /\ SpanDigits(digits) = Len(digits),
         part |-> DigitsToNat(Take(token, n1)),
         contour |-> DigitsToNat(digits)])))

\* the body of the loop of _parse_extra_contours: the reference a token adds, if any
RefOfToken(token, parts) ==
    With(RefPatternMatch(token), LAMBDA m :
    With({i \in DOMAIN parts : parts[i].part_number = m.part}, LAMBDA named :
        IF ~m.matched THEN <<>>
        ELSE IF named = {} THEN <<>>
        ELSE IF m.contour < 1 \/ m.contour > parts[Min(named)].contours THEN <<>>
        ELSE <<ExtraContourRef(m.part, parts[Min(named)].part_line, m.contour)>>))

\* main._parse_extra_contours: the loop ends at MAX_EXTRA_CONTOURS references
_parse_extra_contours(raw, parts) ==
    With(NonEmpty(StripAll(SplitOn(raw, ","))), LAMBDA tokens :
        Prefix(Concat([i \in DOMAIN tokens |-> RefOfToken(tokens[i], parts)]),
               MAX_EXTRA_CONTOURS))

\* main._parse_hkstr_start_xy: None, or the point of the third and fourth argument
_parse_hkstr_start_xy(line) ==
    With(CallMatch(line, HKSTR), LAMBDA m :
    With(StripAll(SplitOn(m.params, ",")), LAMBDA args :
        IF m.at = 0 \/ Len(args) < 4 THEN None
        ELSE IF FloatOf(args[3]).k = "bad" \/ FloatOf(args[4]).k = "bad" THEN None
        ELSE Some(Point(Tenths(FloatOf(args[3])), Tenths(FloatOf(args[4]))))))

\* [-+]?\d*\.?\d+ at the start of text: the length of the match, 0 without one
NumberMatchLen(text) ==
    With(IF text # <<>> /\ text[1] \in {"-", "+"} THEN 1 ELSE 0, LAMBDA sign :
    With(SpanDigits(Drop(text, sign)), LAMBDA n1 :
    With(IF Len(text) > sign + n1 /\ text[sign + n1 + 1] = "."
         THEN SpanDigits(Drop(text, sign + n1 + 1)) ELSE 0, LAMBDA n2 :
        IF n2 > 0 THEN sign + n1 + 1 + n2 ELSE IF n1 > 0 THEN sign + n1 ELSE 0)))

\* main._extract_axis_value: re.search of <axis>\s*([-+]?\d*\.?\d+) with re.IGNORECASE
_extract_axis_value(line, axis) ==
    LET after(p) == Drop(line, p + SpanSpace(Drop(line, p)))
    IN  With({p \in DOMAIN line : UpperChar(line[p]) = axis /\ NumberMatchLen(after(p)) > 0},
             LAMBDA hits :
            IF hits = {} THEN None
            ELSE Some(Tenths(FloatOf(Take(after(Min(hits)), NumberMatchLen(after(Min(hits))))))))

\* main._build_contour_points_from_block, the loop from position pos on
RECURSIVE ContourPointsFrom(_, _, _, _, _)
ContourPointsFrom(block, pos, points, current_x, current_y) ==
    LET line == Strip(block[pos])
        parsed == _parse_hkstr_start_xy(line)
        maybe_x == _extract_axis_value(line, "X")
        maybe_y == _extract_axis_value(line, "Y")
        next_x == IF maybe_x # None THEN maybe_x ELSE current_x
        next_y == IF maybe_y # None THEN maybe_y ELSE current_y
    IN  IF pos > Len(block) THEN points
        ELSE IF line = <<>> THEN ContourPointsFrom(block, pos + 1, points, current_x, current_y)
        ELSE IF Contains(Upper(line), HKSTR \o <<"(">>)
        THEN (IF parsed = None
              THEN ContourPointsFrom(block, pos + 1, points, current_x, current_y)
              ELSE ContourPointsFrom(block, pos + 1, Append(points, parsed[1]),
                                     Some(parsed[1].x), Some(parsed[1].y)))
        ELSE IF ~StartsWith(Upper(line), <<"G">>)
        THEN ContourPointsFrom(block, pos + 1, points, current_x, current_y)
        ELSE IF maybe_x = None /\ maybe_y = None
        THEN ContourPointsFrom(block, pos + 1, points, current_x, current_y)
        ELSE IF next_x = None \/ next_y = None
        THEN ContourPointsFrom(block, pos + 1, points, next_x, next_y)
        ELSE ContourPointsFrom(block, pos + 1, Append(points, Point(next_x[1], next_y[1])),
                               next_x, next_y)

_build_contour_points_from_block(contour_block) ==
    ContourPointsFrom(contour_block, 1, <<>>, None, None)

\* float(part.anchor_x or 0.0)
AnchorTenths(anchor) == IF anchor.k = "bad" THEN 0 ELSE Tenths(anchor)

\* the body of the loop of _build_absolute_part_contours: the contours of one part that
\* have points, moved by the anchor of the part
AbsoluteContoursOf(part, raw_lines) ==
    With(SelectSeq([c \in 1..part.contours |->
                       _build_contour_points_from_block(
                           extract_part_contour_block(raw_lines, part.part_line, c))],
                   LAMBDA local_points : local_points # <<>>), LAMBDA kept :
        [i \in DOMAIN kept |->
            [k \in DOMAIN kept[i] |-> Point(kept[i][k].x + AnchorTenths(part.anchor_x),
                                            kept[i][k].y + AnchorTenths(part.anchor_y))]])

\* main._build_absolute_part_contours: a dict by part number, the last part of a number wins
_build_absolute_part_contours(parts, raw_lines) ==
    [n \in {parts[i].part_number : i \in DOMAIN parts} |->
        AbsoluteContoursOf(parts[Max({i \in DOMAIN parts : parts[i].part_number = n})],
                           raw_lines)]

\* the square of the distance between two points
DistanceSquared(a, b) == (a.x - b.x) * (a.x - b.x) + (a.y - b.y) * (a.y - b.y)

\* main._contour_is_closed
_contour_is_closed(contour) ==
    /\ Len(contour) >= 2
    /\ DistanceSquared(contour[1], contour[Len(contour)]) * EpsilonsPerTenth * EpsilonsPerTenth
       <= 1

\* main._contour_segments
_contour_segments(contour) ==
    [i \in 1..(Len(contour) - 1) |-> <<contour[i], contour[i + 1]>>]

\* main._point_to_segment_distance, squared and as a fraction num / den
_point_to_segment_distance(point, start, end) ==
    LET dx == end.x - start.x
        dy == end.y - start.y
        dot == (point.x - start.x) * dx + (point.y - start.y) * dy
    IN  IF dx = 0 /\ dy = 0 THEN [num |-> DistanceSquared(point, start), den |-> 1]
        ELSE IF dot <= 0 THEN [num |-> DistanceSquared(point, start), den |-> 1]
        ELSE IF dot >= dx * dx + dy * dy THEN [num |-> DistanceSquared(point, end), den |-> 1]
        ELSE [num |-> DistanceSquared(point, start) * (dx * dx + dy * dy) - dot * dot,
              den |-> dx * dx + dy * dy]

\* main._segment_to_segment_distance(p1, p2, q1, q2) <= COMMON_NEIGHBOR_DISTANCE_TOLERANCE:
\* the least of the four distances is within the tolerance
SegmentsWithinTolerance(p1, p2, q1, q2) ==
    \E d \in {_point_to_segment_distance(p1, q1, q2), _point_to_segment_distance(p2, q1, q2),
              _point_to_segment_distance(q1, p1, p2), _point_to_segment_distance(q2, p1, p2)} :
        d.num <= COMMON_NEIGHBOR_DISTANCE_TOLERANCE * COMMON_NEIGHBOR_DISTANCE_TOLERANCE * d.den

\* main._contour_is_common_neighbor
_contour_is_common_neighbor(contour, target_boundary_segments) ==
    /\ Len(contour) >= 2
    /\ \E i \in DOMAIN _contour_segments(contour), j \in DOMAIN target_boundary_segments :
          SegmentsWithinTolerance(_contour_segments(contour)[i][1],
                                  _contour_segments(contour)[i][2],
                                  target_boundary_segments[j][1],
                                  target_boundary_segments[j][2])

\* sorted(parts, key=lambda part: part.part_number): a stable sort
SortedByNumber(parts) ==
    LET rank(i) == Cardinality({j \in DOMAIN parts :
                       \/ parts[j].part_number < parts[i].part_number
                       \/ (parts[j].part_number = parts[i].part_number /\ j <= i)})
    IN  [k \in DOMAIN parts |-> parts[CHOOSE i \in DOMAIN parts : rank(i) = k]]

\* the segments of the closed contours of the target part
TargetBoundarySegments(target_contours) ==
    Concat([i \in DOMAIN target_contours |->
               IF _contour_is_closed(target_contours[i])
               THEN _contour_segments(target_contours[i]) ELSE <<>>])

\* the references that one candidate part adds in _detect_common_neighbor_contours
CandidateRefs(candidate, candidate_contours, target_boundary_segments) ==
    With(SelectSeq([i \in DOMAIN candidate_contours |-> i], LAMBDA i :
             /\ ~_contour_is_closed(candidate_contours[i])
             /\ _contour_is_common_neighbor(candidate_contours[i], target_boundary_segments)),
         LAMBDA found :
        [k \in DOMAIN found |->
            ExtraContourRef(candidate.part_number, candidate.part_line, found[k])])

\* main._detect_common_neighbor_contours: the loop returns at MAX_EXTRA_CONTOURS references
_detect_common_neighbor_contours(parts, raw_lines, target_part) ==
    With(_build_absolute_part_contours(parts, raw_lines), LAMBDA absolute_contours :
    With(TargetBoundarySegments(absolute_contours[target_part.part_number]),
         LAMBDA target_boundary_segments :
    With(SortedByNumber(parts), LAMBDA candidates :
        IF target_boundary_segments = <<>> THEN <<>>
        ELSE Prefix(Concat([k \in DOMAIN candidates |->
                        IF candidates[k].part_number = target_part.part_number THEN <<>>
                        ELSE CandidateRefs(candidates[k],
                                           absolute_contours[candidates[k].part_number],
                                           target_boundary_segments)]),
                    MAX_EXTRA_CONTOURS))))

\* key = (ref.part_number, ref.contour_index)
RefKey(ref) == <<ref.part_number, ref.contour_index>>

\* the loop of _resolve_extra_contours from position pos on; seen is the keys of merged
RECURSIVE MergeFrom(_, _, _)
MergeFrom(refs, pos, merged) ==
    IF pos > Len(refs) \/ Len(merged) >= MAX_EXTRA_CONTOURS THEN merged
    ELSE IF \E i \in DOMAIN merged : RefKey(merged[i]) = RefKey(refs[pos])
    THEN MergeFrom(refs, pos + 1, merged)
    ELSE MergeFrom(refs, pos + 1, Append(merged, refs[pos]))

\* a faulty merge, which never looks at the keys it has seen
ResolveWithoutSeen(explicit_refs, auto_refs) ==
    [kind |-> "ok", refs |-> Prefix(explicit_refs \o auto_refs, MAX_EXTRA_CONTOURS),
     explicit_refs |-> explicit_refs, auto_refs |-> auto_refs]

\* main._resolve_extra_contours, given the two lists it merges: explicit_refs is
\* _parse_extra_contours(raw, parts), auto_refs is _detect_common_neighbor_contours(...)
_resolve_extra_contours(explicit_refs, auto_refs) ==
    [kind |-> "ok", refs |-> MergeFrom(explicit_refs \o auto_refs, 1, <<>>),
     explicit_refs |-> explicit_refs, auto_refs |-> auto_refs]

(***************************************************************************)
(* Programs of two parts that share an edge.  Each part has a closed       *)
(* square; the first has an open contour on the shared edge and one inside *)
(* the square, the second has its open contours on the shared edge.        *)
(***************************************************************************)
\* the most open contours of the second part
MaxOpen == 6

\* the most tokens of an extra_contours query value
MaxTokens == 2

\* the side of the square of a part
Side == 2

\* a contour block: HKSTR at the first point, a G1 move to each further point, HKSTO
PolylineLines(label, points) ==
    <<LabelText(label) \o HKSTR \o <<"(", "1", ",", "1", ",">> \o NatToDigits(points[1][1])
      \o <<",">> \o NatToDigits(points[1][2]) \o <<",", "0", ",", "0", ",", "0", ",", "0", ")">>>>
    \o [k \in 1..(Len(points) - 1) |->
           <<"G", "1", " ", "X">> \o NatToDigits(points[k + 1][1])
           \o <<" ", "Y">> \o NatToDigits(points[k + 1][2])]
    \o <<HkstoLine>>

Square == <<<<0, 0>>, <<Side, 0>>, <<Side, Side>>, <<0, Side>>, <<0, 0>>>>

\* the HKOST line of the p-th part, anchored at ((p - 1) * Side, 0)
NeighbourHkostLine(p) ==
    LabelText(p * PartStride) \o HKOST \o <<"(">> \o NatToDigits((p - 1) * Side)
    \o <<".", "0", ",", "0", ".", "0", ",", "0", ".", "0", ",">> \o NatToDigits(p * PartStride + 1)
    \o <<",", "1", ",", "0", ",", "0", ",", "0", ")">>

\* the program whose second part has w open contours
NeighbourProgram(w) ==
    HeaderFixture
    \o <<NeighbourHkostLine(1), HkpppLine, NeighbourHkostLine(2), HkpppLine>>
    \o FooterFixture("canonical")
    \o PolylineLines(PartStride + 1, Square)
    \o PolylineLines(PartStride + 2, <<<<Side, 0>>, <<Side, 1>>>>)
    \o PolylineLines(PartStride + 3, <<<<1, 1>>, <<1, Side>>>>)
    \o <<HkpedLine>>
    \o PolylineLines(2 * PartStride + 1, Square)
    \o Concat([k \in 1..w |-> PolylineLines(2 * PartStride + 1 + k, <<<<0, 0>>, <<0, k>>>>)])
    \o <<HkpedLine>>

\* a contour block without a point: its HKSTR call has no start point and no move follows
HollowContour(label) ==
    <<LabelText(label) \o HKSTR \o <<"(", "1", ",", "1", ")">>, HkstoLine>>

\* the program whose second part has w open contours and, before them, in the variant
\* "hollow" a contour without points and then its square, in the variant "unclosed" its
\* square without the closing move
NeighbourVariantProgram(w, variant) ==
    HeaderFixture
    \o <<NeighbourHkostLine(1), HkpppLine, NeighbourHkostLine(2), HkpppLine>>
    \o FooterFixture("canonical")
    \o PolylineLines(PartStride + 1, Square)
    \o PolylineLines(PartStride + 2, <<<<Side, 0>>, <<Side, 1>>>>)
    \o PolylineLines(PartStride + 3, <<<<1, 1>>, <<1, Side>>>>)
    \o <<HkpedLine>>
    \o (IF variant = "hollow"
        THEN HollowContour(2 * PartStride + 1)
             \o PolylineLines(2 * PartStride + MaxOpen + 2, Square)
        ELSE PolylineLines(2 * PartStride + 1, Take(Square, 4)))
    \o Concat([k \in 1..w |-> PolylineLines(2 * PartStride + 1 + k, <<<<0, 0>>, <<0, k>>>>)])
    \o <<HkpedLine>>

NeighbourPrograms ==
    {NeighbourProgram(w) : w \in 0..MaxOpen}
    \cup {NeighbourVariantProgram(w, variant) : w \in 0..MaxOpen, variant \in {"hollow", "unclosed"}}

\* the tokens of an extra_contours query value: contours that exist, the same contour
\* written in another way, a part and contours that do not exist, and no reference at all
RefTokens ==
    {<<"1", ".", "2">>, <<"2", ".", "2">>, <<"0", "2", ".", "2">>, <<"2", " ", ".", " ", "5">>,
     <<"3", ".", "1">>, <<"2", ".", "0">>, <<"x">>}

\* a value that names more contours than MAX_EXTRA_CONTOURS
LongRaw ==
    Join(<<<<"1", ".", "1">>, <<"1", ".", "2">>, <<"1", ".", "3">>, <<"2", ".", "1">>,
           <<"2", ".", "2">>, <<"2", ".", "3">>>>, <<",", " ">>)

RawChoices ==
    {Join(tokens, <<",">>) : tokens \in UNION {[1..k -> RefTokens] : k \in 0..MaxTokens}}
    \cup {LongRaw}

\* GET /jobs/{job_id}/parts/{part_number}?extra_contours=raw: the references of the
\* request, for the first part that has the number
ResolveExtraContours ==
    \E part_number \in 1..2 :
        With(summarize_parts(program), LAMBDA summary :
        With(summary.parts[Min({i \in DOMAIN summary.parts :
                                   summary.parts[i].part_number = part_number})],
             LAMBDA target_part :
        With(_detect_common_neighbor_contours(summary.parts, program, target_part),
             LAMBDA auto_refs :
            \E raw \in RawChoices :
                /\ request = NoRequest
                /\ summary.kind = "ok"
                /\ \E i \in DOMAIN summary.parts : summary.parts[i].part_number = part_number
                /\ request' = [op |-> "_resolve_extra_contours", label |-> part_number,
                               margin |-> 0, extras |-> <<>>, order |-> <<>>, raw |-> raw]
                /\ response' = _resolve_extra_contours(
                                   _parse_extra_contours(raw, summary.parts), auto_refs)
                /\ UNCHANGED <<program, parserVars, releaseVars>>)))

InitContours ==
    /\ program \in NeighbourPrograms
    /\ request = NoRequest
    /\ response = NoResponse
    /\ NoJobs
    /\ source = <<>>
    /\ idx = 0
    /\ commands = <<>>
    /\ errors = <<>>
    /\ comments = <<>>
    /\ unparsed = <<>>
    /\ pstatus = "idle"
    /\ pass = 0
    /\ first = <<>>

NextContours == ResolveExtraContours

SpecContours == InitContours /\ [][NextContours]_vars

(***************************************************************************)
(* The properties of the extra-contour references, under SpecContours.     *)
(***************************************************************************)
Resolved == request.op = "_resolve_extra_contours"

\* the keys of a list of references
Keys(refs) == [i \in DOMAIN refs |-> RefKey(refs[i])]

\* C11: the list that _resolve_extra_contours returns has at most 5 entries, no two of
\* them with the same (part_number, contour_index), and it starts with the explicit
\* references it keeps, without repeats and in the order the user gave them; every
\* entry after them is a detected reference that the user did not name, in the order
\* of detection; explicit references are left out only by the limit of 5.
C11_ExplicitFirstNoRepeatAtMostFive ==
    Resolved =>
        LET merged == response.refs
            named == Dedup(Keys(response.explicit_refs))
            detected == SelectSeq(Dedup(Keys(response.auto_refs)),
                                  LAMBDA key : key \notin Range(named))
        IN  /\ Len(merged) <= MAX_EXTRA_CONTOURS
            /\ \A i, j \in DOMAIN merged : i # j => RefKey(merged[i]) # RefKey(merged[j])
            /\ \E k \in 0..Len(merged) :
                  /\ k <= Len(named)
                  /\ SubSeq(Keys(merged), 1, k) = SubSeq(named, 1, k)
                  /\ k < Len(named) => Len(merged) = MAX_EXTRA_CONTOURS /\ k = Len(merged)
                  /\ Len(merged) - k <= Len(detected)
                  /\ SubSeq(Keys(merged), k + 1, Len(merged))
                     = SubSeq(detected, 1, Len(merged) - k)
                  /\ \A i \in 1..k : merged[i] \in Range(response.explicit_refs)
                  /\ \A i \in (k + 1)..Len(merged) : merged[i] \in Range(response.auto_refs)

\* a request that names two contours, one of which the detection finds as well, for a
\* part with five detected neighbours: the merge drops the repeat and stops at five
C11_Witness ==
    /\ Resolved
    /\ Len(response.explicit_refs) = 2
    /\ Len(response.auto_refs) = MAX_EXTRA_CONTOURS
    /\ Len(response.refs) = MAX_EXTRA_CONTOURS
    /\ response.explicit_refs[1] \in Range(response.auto_refs)
    /\ response.explicit_refs[2] \notin Range(response.auto_refs)
    /\ response.refs[3] \in Range(response.auto_refs)

(***************************************************************************)
(* Part VII.  Further properties of the rewrite engine, under SpecRewrite. *)
(***************************************************************************)
\* an extra-contour reference (part_line, contour_index) that names no contour of the
\* program: no part block for the label, or an index outside 1..the count of its contours
InvalidExtraContour(lines, ref) ==
    With(extract_part_contour_blocks(lines, ref[1]), LAMBDA contour_blocks :
        ref[2] < 1 \/ ref[2] > Len(contour_blocks))

\* C12: extract_part_program called with an extra-contour reference that names no
\* contour (no such part, or a contour_index below 1 or above the part's contour count)
\* fails (it raises, as a structural error does) and returns no program.
C12_InvalidExtraContourFails ==
    (/\ request.op = "extract_part_program"
     /\ \E i \in DOMAIN request.extras : InvalidExtraContour(Body, request.extras[i]))
    => response.kind # "ok" /\ response.lines = <<>>

(***************************************************************************)
(* Part VIII.  Labels of every length: the part number the indexer reads   *)
(* from an HKOST label and the label the rewrite engine writes, under      *)
(* SpecLabels.                                                             *)
(***************************************************************************)
\* the most digits of a label
MaxDigits == 9

\* digit strings that labels are cut from; the last starts with zeros
LabelPatterns ==
    {<<"1", "9", "8", "7", "6", "5", "4", "3", "2", "1">>,
     <<"2", "0", "1", "0", "3", "0", "4", "0", "5", "0">>,
     <<"0", "0", "1", "2", "3", "4", "5", "6", "7", "8">>}

LabelTexts == {Take(pattern, n) : pattern \in LabelPatterns, n \in 1..MaxDigits}

\* a program of one part whose HKOST line bears the label, as the digits stand, and
\* whose contour block bears the next label
LabelProgram(digits) ==
    HeaderFixture
    \o <<<<"N">> \o digits \o <<" ">> \o HKOST
         \o <<"(", "0", ".", "0", ",", "0", ".", "0", ",", "0", ".", "0", ",">>
         \o NatToDigits(DigitsToNat(digits) + 1) \o <<",", "1", ",", "0", ",", "0", ",", "0", ")">>,
         HkpppLine>>
    \o FooterFixture("canonical")
    \o <<HkstrLine(NatToDigits(DigitsToNat(digits) + 1), 1, 1), MoveLine(1, 1), HkstoLine, HkpedLine>>

InitLabels ==
    /\ program \in {LabelProgram(digits) : digits \in LabelTexts}
    /\ request = NoRequest
    /\ response = NoResponse
    /\ NoJobs
    /\ source = <<>>
    /\ idx = 0
    /\ commands = <<>>
    /\ errors = <<>>
    /\ comments = <<>>
    /\ unparsed = <<>>
    /\ pstatus = "idle"
    /\ pass = 0
    /\ first = <<>>

NextLabels ==
    \/ SummarizeParts
    \/ BuildReorderedProgram

SpecLabels == InitLabels /\ [][NextLabels]_vars

\* the prefix length of a label of n digits, as the part-number rule states it
StatedPrefixLength(n) == Min({4, Max({1, n - 4})})

\* the position of the HKOST line in a list of lines
HkostAt(lines) == Min({i \in DOMAIN lines : HasCall(lines[i], HKOST)})

\* text put to the given width with zeros in front
ZFill(text, width) == [i \in 1..(width - Len(text)) |-> "0"] \o text

\* the number build_reordered_program gives the only part of a program: its last
\* position among the requested numbers, or 1 when the order does not name it
NewNumberOfOnlyPart(part_number, order) ==
    Max({1, Cardinality({i \in DOMAIN order : order[i] = part_number})})

MaxJobs == 2

\* job ids
JobIds == 1..MaxJobs

\* diagnostics.Diagnostic
Diagnostic(severity, code) == [severity |-> severity, code |-> code]

\* diagnostics lists of ValidationService.validate_lines: none, a warning, an error, a
\* warning followed by an error, two errors
DiagnosticLists ==
    {<<>>,
     <<Diagnostic("warning", "feed_rate_low")>>,
     <<Diagnostic("error", "feed_rate_high")>>,
     <<Diagnostic("error", "blacklisted_command")>>,
     <<Diagnostic("warning", "nonwhitelisted_command"), Diagnostic("error", "power_high")>>,
     <<Diagnostic("error", "blacklisted_command"), Diagnostic("error", "feed_rate_high")>>}

\* diagnostics.ValidationResult, without the parsed lines
ValidationResult(job_id, diagnostics) == [job_id |-> job_id, diagnostics |-> diagnostics]

ValidationResults ==
    {ValidationResult(job_id, diagnostics) : job_id \in JobIds, diagnostics \in DiagnosticLists}

\* ValidationResult.has_blockers
has_blockers(result) ==
    \E i \in DOMAIN result.diagnostics : result.diagnostics[i].severity = "error"

\* a faulty check, which lets every validated job through
CanReleaseEveryValidatedJob(job_id) == job_id \in DOMAIN validated_jobs

\* ReleaseManager.can_release
can_release(job_id) ==
    job_id \in DOMAIN validated_jobs /\ ~has_blockers(validated_jobs[job_id])

\* ReleaseManager.record_validation
record_validation ==
    \E result \in ValidationResults :
        /\ validated_jobs' = Put(validated_jobs, result.job_id, result)
        /\ request' = [op |-> "record_validation", job_id |-> result.job_id, result |-> result]
        /\ response' = [kind |-> "ok"]
        /\ UNCHANGED <<released_jobs, program, parserVars>>

\* ReleaseManager.record_release
record_release ==
    \E job_id \in JobIds :
        /\ request' = [op |-> "record_release", job_id |-> job_id]
        /\ IF ~can_release(job_id)
           THEN /\ response' = [kind |-> "ValueError"]
                /\ UNCHANGED released_jobs
           ELSE /\ response' = [kind |-> "ok"]
                /\ released_jobs' = released_jobs \cup {job_id}
        /\ UNCHANGED <<validated_jobs, program, parserVars>>

InitRelease ==
    /\ NoJobs
    /\ program = <<>>
    /\ request = NoRequest
    /\ response = NoResponse
    /\ source = <<>>
    /\ idx = 0
    /\ commands = <<>>
    /\ errors = <<>>
    /\ comments = <<>>
    /\ unparsed = <<>>
    /\ pstatus = "idle"
    /\ pass = 0
    /\ first = <<>>

NextRelease ==
    \/ record_validation
    \/ record_release

SpecRelease == InitRelease /\ [][NextRelease]_vars

\* the validation recorded last for a job is free of diagnostics of severity "error"
FreeOfErrors(job_id) ==
    /\ job_id \in DOMAIN validated_jobs
    /\ \A i \in DOMAIN validated_jobs[job_id].diagnostics :
          validated_jobs[job_id].diagnostics[i].severity # "error"

\* a call of record_validation leaves its result as the validation of its job, and
\* the validations of the other jobs and the released jobs as they were
ValidationIsKept ==
    request'.op = "record_validation" =>
        /\ request'.job_id \in DOMAIN validated_jobs'
        /\ validated_jobs'[request'.job_id] = request'.result
        /\ \A other \in DOMAIN validated_jobs' \ {request'.job_id} :
              other \in DOMAIN validated_jobs /\ validated_jobs'[other] = validated_jobs[other]
        /\ released_jobs' = released_jobs

\* a call of record_release succeeds and releases the job where the validation recorded
\* last for the job exists and is free of errors; elsewhere it raises ValueError and
\* releases nothing
ReleaseIsGuarded ==
    request'.op = "record_release" =>
        /\ validated_jobs' = validated_jobs
        /\ IF FreeOfErrors(request'.job_id)
           THEN response'.kind = "ok" /\ released_jobs' = released_jobs \cup {request'.job_id}
           ELSE response'.kind = "ValueError" /\ released_jobs' = released_jobs

\* C16: over any sequence of record_validation and record_release calls, record_release
\* succeeds only when the validation recorded last for the job exists and holds no
\* diagnostic of severity "error"; otherwise it raises ValueError and the released jobs
\* stay as they were.
C16_ReleaseNeedsCleanValidation == [][ValidationIsKept /\ ReleaseIsGuarded]_vars

\* a job that was released, then validated again with a feed rate above the limit, and
\* whose next release was refused; another job was never validated
C16_Witness ==
    /\ request.op = "record_release"
    /\ response.kind = "ValueError"
    /\ request.job_id \in released_jobs
    /\ request.job_id \in DOMAIN validated_jobs
    /\ validated_jobs[request.job_id].diagnostics = <<Diagnostic("error", "feed_rate_high")>>
    /\ DOMAIN validated_jobs = {request.job_id}

(***************************************************************************)
(* Part X.  Programs in which a label stands on more than one line, or in  *)
(* which one label begins with the digits of another, under                *)
(* SpecDuplicates.                                                         *)
(***************************************************************************)
\* an HKOST line with the given label, the anchor of the p-th part and a profile reference
LabelledHkost(label, p, reference) ==
    LabelText(label) \o HKOST \o <<"(">>
    \o Join(<<AnchorText(p), AnchorText(p), <<"0", ".", "0">>, NatToDigits(reference),
              <<"1">>, <<"0">>, <<"0">>, <<"0">>>>, <<",">>)
    \o <<")">>

\* a contour under the given label: it starts at (p, c)
LabelledContour(label, p, c) == <<HkstrLine(NatToDigits(label), p, c), MoveLine(p, c), HkstoLine>>

\* the line with its label letter in lower case
LowerLabel(line) == <<"n">> \o Tail(line)

DuplicateVariants ==
    {"profileTwice", "profileTwiceBlank", "profileLowerCase", "profileThrice",
     "profileOnMove", "partTwice", "prefixLabel"}

\* two parts, 10000 and 20000, and their contour blocks; the variant says which label is
\* repeated: the profile label 10001 on a later HKSTR line (also in lower case, also
\* three times, also on a line that is no HKSTR line), or the part label 10000 on a
\* second HKOST line; in "prefixLabel" the second part bears the label 100, with which
\* the label 10000 begins
DuplicateProgram(variant) ==
    LET gap == IF variant = "profileTwiceBlank" THEN <<<<>>>> ELSE <<>>
        second == IF variant = "partTwice" THEN LabelledHkost(10000, 2, 20001)
                  ELSE IF variant = "prefixLabel" THEN LabelledHkost(100, 2, 101)
                  ELSE LabelledHkost(20000, 2, 20001)
        secondBlock == IF variant = "prefixLabel" THEN LabelledContour(101, 2, 1)
                       ELSE LabelledContour(20001, 2, 1)
        again == LabelledContour(10001, 1, 2)
        repeated ==
            IF variant \in {"partTwice", "prefixLabel"} THEN <<>>
            ELSE IF variant = "profileOnMove"
            THEN gap \o <<LabelText(10001) \o MoveLine(1, 2), HkpedLine>>
            ELSE gap
                 \o (IF variant = "profileLowerCase"
                     THEN <<LowerLabel(again[1])>> \o Tail(again) ELSE again)
                 \o LabelledContour(10002, 1, 3) \o <<HkpedLine>>
                 \o (IF variant = "profileThrice"
                     THEN LabelledContour(10001, 1, 4) \o <<HkpedLine>> ELSE <<>>)
    IN  HeaderFixture
        \o <<LabelledHkost(10000, 1, 10001), HkpppLine, second, HkpppLine>>
        \o FooterFixture("canonical")
        \o gap \o LabelledContour(10001, 1, 1) \o <<HkpedLine>>
        \o gap \o secondBlock \o <<HkpedLine>>
        \o repeated

DuplicatePrograms == {DuplicateProgram(variant) : variant \in DuplicateVariants}

\* a call of parser.extract_part_block on the uploaded lines, as main.py makes it
ExtractPartBlock ==
    \E label \in RequestLabels(program) :
        /\ request = NoRequest
        /\ request' = Request("extract_part_block", label, 0, <<>>, <<>>)
        /\ response' = [kind |-> "ok", lines |-> extract_part_block(program, label)]
        /\ UNCHANGED <<program, parserVars, releaseVars>>

InitDuplicates ==
    /\ program \in DuplicatePrograms
    /\ request = NoRequest
    /\ response = NoResponse
    /\ NoJobs
    /\ source = <<>>
    /\ idx = 0
    /\ commands = <<>>
    /\ errors = <<>>
    /\ comments = <<>>
    /\ unparsed = <<>>
    /\ pstatus = "idle"
    /\ pass = 0
    /\ first = <<>>

NextDuplicates ==
    \/ SummarizeParts
    \/ ExtractPartProgram
    \/ ExtractPartBlock

SpecDuplicates == InitDuplicates /\ [][NextDuplicates]_vars

\* the positions of the lines that bear the label
Occurrences(lines, label) ==
    {i \in DOMAIN lines : HasLabel(Strip(lines[i])) /\ LabelOf(Strip(lines[i])) = label}

\* the profile label that the HKOST line at the given position refers to
ProfileOf(lines, pos) == _extract_hkost_details(Strip(lines[pos])).profile_line

\* C23: when a label stands on more than one line, the indexer and the rewrite engine both
\* resolve it to its last occurrence: summarize_parts starts the span of a part with a
\* duplicated profile label at the last line that bears the label, and the program that
\* extract_part_program returns holds that line and none of the earlier ones.
C23_LastOccurrenceWins ==
    /\ (request.op = "summarize_parts" /\ response.kind = "ok") =>
          \A k \in DOMAIN response.parts :
              With(response.parts[k].profile_line, LAMBDA profile_line :
                  (profile_line # None /\ Cardinality(Occurrences(program, profile_line[1])) >= 2)
                  => response.parts[k].start_line = Max(Occurrences(program, profile_line[1])))
    /\ (request.op = "extract_part_program" /\ response.kind = "ok") =>
          With(ProfileOf(program, Max(Occurrences(program, request.label))), LAMBDA profile_line :
          With(Occurrences(program, profile_line[1]), LAMBDA at :
              Cardinality(at) >= 2 =>
                  /\ \E i \in DOMAIN response.lines : response.lines[i] = program[Max(at)]
                  /\ \A i \in DOMAIN response.lines :
                         \A j \in at \ {Max(at)} : response.lines[i] # program[j]))

\* the profile label 10001 stands on three lines, and the program extracted for part
\* 10000 holds the third of them
C23_Witness ==
    /\ program = DuplicateProgram("profileThrice")
    /\ Cardinality(Occurrences(program, 10001)) = 3
    /\ request.op = "extract_part_program" /\ request.label = 10000
    /\ response.kind = "ok"
    /\ \E i \in DOMAIN response.lines :
           response.lines[i] = program[Max(Occurrences(program, 10001))]

\* the contour span of the HKOST line at the given position: from the last line that
\* bears its profile label through the first HKPED(...) line at or after it
SpanOfHkostAt(lines, pos) ==
    With(ProfileOf(lines, pos), LAMBDA profile_line :
    With(IF profile_line = None THEN {} ELSE Occurrences(lines, profile_line[1]), LAMBDA at :
        IF at = {} THEN <<>>
        ELSE SubSeq(lines, Max(at), _find_profile_end(StripAll(lines), Max(at)))))

\* C29: extract_part_block(lines, part_line) returns the contour span of the HKOST line
\* whose label is exactly part_line, or an empty list when there is no such line: never
\* the span of a part whose label only begins with the digits of part_line; and the
\* HKOST line it picks is the one the label index of extract_part_program picks, the
\* last line that bears the label.
C29_ExactPartLabel ==
    request.op = "extract_part_block" =>
        With({i \in Occurrences(program, request.label) : HasCall(Strip(program[i]), HKOST)},
             LAMBDA hkosts :
            IF hkosts = {} THEN response.lines = <<>>
            ELSE /\ Max(hkosts) = Max(Occurrences(program, request.label))
                 /\ response.lines = SpanOfHkostAt(program, Max(hkosts)))

(***************************************************************************)
(* Part XI.  Borrowed contour blocks spliced into a part span:             *)
(* extract_part_program with up to two extra contours, under SpecSplice.   *)
(***************************************************************************)
\* the programs that lend and borrow contours
SplicePrograms ==
    {ProgramOf(n, variant) :
        n \in 2..MaxParts,
        variant \in {"canonical", "labelledFooter", "bareHkped", "blankLines", "unlabelled"}}

\* the extra_contours lists of a request: up to two (part_line, contour_index) pairs, of
\* labelled HKOST lines and of contours that exist and that do not
SpliceChoices(lines) ==
    LET refs == {<<LabelOf(lines[i]), c>> :
                    i \in {j \in DOMAIN lines : HasLabel(lines[j]) /\ HasCall(lines[j], HKOST)},
                    c \in 1..(MaxParts + 1)}
    IN  UNION {[1..k -> refs] : k \in 0..2}

ExtractWithExtraContours ==
    \E label \in RequestLabels(program), extras \in SpliceChoices(program) :
        /\ request = NoRequest
        /\ request' = Request("extract_part_program", label, 0, extras, <<>>)
        /\ response' = extract_part_program(program, label, 0, extras)
        /\ UNCHANGED <<program, parserVars, releaseVars>>

InitSplice ==
    /\ program \in SplicePrograms
    /\ request = NoRequest
    /\ response = NoResponse
    /\ NoJobs
    /\ source = <<>>
    /\ idx = 0
    /\ commands = <<>>
    /\ errors = <<>>
    /\ comments = <<>>
    /\ unparsed = <<>>
    /\ pstatus = "idle"
    /\ pass = 0
    /\ first = <<>>

NextSplice == ExtractWithExtraContours

SpecSplice == InitSplice /\ [][NextSplice]_vars

\* the largest label of a list of lines, 0 when no line bears one
MaxLabel(lines) ==
    Max({LabelOf(lines[i]) : i \in {j \in DOMAIN lines : HasLabel(lines[j])}} \cup {0})

PartNamed(parts, ref) ==
    parts[Max({i \in DOMAIN parts : parts[i].part_number = ref.part_number})]

\* the points of the contour that a reference names, moved by the anchor of its part
PointsNamed(parts, ref) ==
    With(_build_contour_points_from_block(
             extract_part_contour_block(program, ref.part_line, ref.contour_index)),
         LAMBDA local_points :
        [k \in DOMAIN local_points |->
            Point(local_points[k].x + AnchorTenths(PartNamed(parts, ref).anchor_x),
                  local_points[k].y + AnchorTenths(PartNamed(parts, ref).anchor_y))])

\* the segments of the closed contours of a part
ClosedSegmentsOf(part) ==
    Concat([c \in 1..part.contours |->
               With(PointsNamed(<<part>>, ExtraContourRef(part.part_number, part.part_line, c)),
                    LAMBDA contour :
                   IF _contour_is_closed(contour) THEN _contour_segments(contour) ELSE <<>>)])

\* C25: every reference that _detect_common_neighbor_contours returns names a part other
\* than the target and a contour of that part, with an index from 1 to the contour count
\* of the part, that is open: its first and its last point are more than 0.001 apart;
\* the boundary it is tested against is made of the closed contours of the target only,
\* and the result is empty when the target has no closed contour.
C25_DetectedContoursAreOpen ==
    Resolved =>
        With(summarize_parts(program).parts, LAMBDA parts :
        With(parts[Min({i \in DOMAIN parts : parts[i].part_number = request.label})],
             LAMBDA target_part :
        With(ClosedSegmentsOf(target_part), LAMBDA boundary :
            /\ boundary = <<>> => response.auto_refs = <<>>
            /\ \A i \in DOMAIN response.auto_refs :
                  With(response.auto_refs[i], LAMBDA ref :
                  With(PointsNamed(parts, ref), LAMBDA contour :
                      /\ ref.part_number # target_part.part_number
                      /\ ref.contour_index \in 1..PartNamed(parts, ref).contours
                      /\ contour # <<>>
                      /\ ~_contour_is_closed(contour)
                      /\ _contour_is_common_neighbor(contour, boundary))))))

(***************************************************************************)
(* Part XIII.  The geometry reconstructor of src/server/app/parser.py:     *)
(* the polyline of a contour block, under SpecPlot, and the interpolation  *)
(* of an arc, under SpecArc.  Coordinates are integers in tenths, angles   *)
(* are integers in thousandths of a degree.                                 *)
(***************************************************************************)
HKCUT == <<"H", "K", "C", "U", "T">>

\* str.rfind(c): the last position holding c, 0 when there is none
RFind(s, c) == Max({i \in DOMAIN s : s[i] = c} \cup {0})

\* parser._parse_hk_params: the items between the first "(" and the last ")"
_parse_hk_params(params_text) ==
    With(Find(params_text, "(", 1), LAMBDA start :
    With(RFind(params_text, ")"), LAMBDA end :
        IF start = 0 \/ end = 0 \/ end <= start THEN <<>>
        ELSE _split_params(SubSeq(params_text, start + 1, end - 1))))

\* parser._coerce_float, of a text that holds a finite number or none
_coerce_float(value) ==
    IF FloatOf(value).k = "bad" THEN None ELSE Some(Tenths(FloatOf(value)))

\* parser._strip_line_label
_strip_line_label(line) == IF HasLabel(line) THEN LStrip(AfterLabel(line)) ELSE line

\* LINE_RE = ^(?P<command>[A-Z]+[0-9]*[A-Z]?)(?P<rest>.*)$: the length of the command,
\* 0 without a match
LineCommandLen(content) ==
    With(SpanUpper(content), LAMBDA letters :
    With(SpanDigits(Drop(content, letters)), LAMBDA digits :
        IF letters = 0 THEN 0
        ELSE IF Len(content) > letters + digits /\ IsUpper(content[letters + digits + 1])
        THEN letters + digits + 1
        ELSE letters + digits))

\* the commands that move
MotionCommands ==
    {<<"G", "0">>, <<"G", "0", "0">>, <<"G", "1">>, <<"G", "0", "1">>,
     <<"G", "2">>, <<"G", "0", "2">>, <<"G", "3">>, <<"G", "0", "3">>}

ArcCommands == {<<"G", "2">>, <<"G", "0", "2">>, <<"G", "3">>, <<"G", "0", "3">>}

\* {axis.upper(): float(value) for axis, value in COORD_RE.findall(params_text)} with
\* COORD_RE = ([XY])([-+]?\d*\.?\d+): the matches from position p on, the last of an axis
\* wins
RECURSIVE CoordsFrom(_, _, _)
CoordsFrom(text, p, coords) ==
    With(NumberMatchLen(Drop(text, p)), LAMBDA n :
        IF p > Len(text) THEN coords
        ELSE IF text[p] \in {"X", "Y"} /\ n > 0
        THEN CoordsFrom(text, p + 1 + n,
                        [coords EXCEPT ![text[p]] = Some(Tenths(FloatOf(SubSeq(text, p + 1, p + n))))])
        ELSE CoordsFrom(text, p + 1, coords))

\* [-+]?(?:\d+(?:\.\d*)?|\.\d+) at the start of text: the length of the match, 0 without
ParamNumberLen(text) ==
    With(IF text # <<>> /\ text[1] \in {"-", "+"} THEN 1 ELSE 0, LAMBDA sign :
    With(SpanDigits(Drop(text, sign)), LAMBDA n1 :
    With(IF Len(text) > sign + n1 /\ text[sign + n1 + 1] = "."
         THEN SpanDigits(Drop(text, sign + n1 + 1)) ELSE -1, LAMBDA n2 :
        IF n1 > 0 THEN sign + n1 + (IF n2 >= 0 THEN 1 + n2 ELSE 0)
        ELSE IF n2 > 0 THEN sign + 1 + n2
        ELSE 0)))

\* {key.upper(): float(value) for key, value in PARAM_RE.findall(params_text)} with
\* PARAM_RE = (?<![A-Za-z0-9_$])([A-Za-z])([-+]?(?:\d+(?:\.\d*)?|\.\d+)), read at I and J
RECURSIVE ArcParamsFrom(_, _, _)
ArcParamsFrom(text, p, found) ==
    With(ParamNumberLen(Drop(text, p)), LAMBDA n :
        IF p > Len(text) THEN found
        ELSE IF /\ IsAlpha(text[p])
                /\ n > 0
                /\ (p = 1 \/ ~(IsAlnum(text[p - 1]) \/ text[p - 1] \in {"_", "$"}))
        THEN ArcParamsFrom(text, p + 1 + n,
                 IF UpperChar(text[p]) \in {"I", "J"}
                 THEN [found EXCEPT ![UpperChar(text[p])] =
                                        Some(Tenths(FloatOf(SubSeq(text, p + 1, p + n))))]
                 ELSE found)
        ELSE ArcParamsFrom(text, p + 1, found))

\* 360 degrees and 180 degrees
FullTurn == 360000

HalfTurn == 180000

\* math.radians(10)
SegmentAngle == 10000

\* math.atan2 of a direction of the first quadrant, for the directions along the axes,
\* along the diagonal and along the sides of the triangle with sides 3, 4 and 5
QuadrantAngle(ay, ax) ==
    CASE ay = 0 -> 0
      [] 4 * ay = 3 * ax -> 36870
      [] ay = ax -> 45000
      [] 3 * ay = 4 * ax -> 53130
      [] ax = 0 -> 90000

Abs(v) == IF v < 0 THEN 0 - v ELSE v

\* math.atan2(dy, dx), in (-180, 180] degrees
Atan2(dy, dx) ==
    With(QuadrantAngle(Abs(dy), Abs(dx)), LAMBDA q :
        IF dx >= 0 THEN (IF dy >= 0 THEN q ELSE 0 - q)
        ELSE (IF dy >= 0 THEN HalfTurn - q ELSE q - HalfTurn))

\* a point of an arc: the point of the circle about the center with the radius
\* hypot(offset_i, offset_j) at the angle
ArcPoint(center_x, center_y, offset_i, offset_j, angle) ==
    [center_x |-> center_x, center_y |-> center_y,
     radius_squared |-> offset_i * offset_i + offset_j * offset_j, angle |-> angle]

\* the sweep of _interpolate_arc_points: end_angle - start_angle, less a full turn when
\* it is not negative on a clockwise arc, plus a full turn when it is not positive on a
\* counter-clockwise arc
SweepOf(start_angle, end_angle, clockwise) ==
    With(end_angle - start_angle, LAMBDA sweep :
        IF clockwise /\ sweep >= 0 THEN sweep - FullTurn
        ELSE IF ~clockwise /\ sweep <= 0 THEN sweep + FullTurn
        ELSE sweep)

\* parser._interpolate_arc_points
_interpolate_arc_points(start_x, start_y, end_x, end_y, offset_i, offset_j, clockwise) ==
    IF start_x = None \/ start_y = None \/ offset_i = None \/ offset_j = None THEN <<>>
    ELSE IF offset_i[1] = 0 /\ offset_j[1] = 0 THEN <<>>
    ELSE With(start_x[1] + offset_i[1], LAMBDA center_x :
         With(start_y[1] + offset_j[1], LAMBDA center_y :
         With(Atan2(start_y[1] - center_y, start_x[1] - center_x), LAMBDA start_angle :
         With(SweepOf(start_angle, Atan2(end_y - center_y, end_x - center_x), clockwise),
              LAMBDA sweep :
         With(Max({2, Abs(sweep) \div SegmentAngle}), LAMBDA segments :
             [step \in 1..segments |->
                 ArcPoint(center_x, center_y, offset_i[1], offset_j[1],
                          start_angle + (sweep * step) \div segments)])))))

\* parser._build_contour_plot_points, the loop from position pos on
RECURSIVE PlotPointsFrom(_, _, _, _, _, _)
PlotPointsFrom(lines, pos, points, current_x, current_y, cut_started) ==
    LET normalized == Strip(lines[pos])
        upper_line == Upper(normalized)
        params == _parse_hk_params(upper_line)
        pierce_x == _coerce_float(params[3])
        pierce_y == _coerce_float(params[4])
        content == _strip_line_label(normalized)
        command == Take(content, LineCommandLen(content))
        params_text == Drop(content, LineCommandLen(content))
        coords == CoordsFrom(params_text, 1, [axis \in {"X", "Y"} |-> None])
        next_x == IF coords["X"] # None THEN coords["X"] ELSE current_x
        next_y == IF coords["Y"] # None THEN coords["Y"] ELSE current_y
        arc_params == ArcParamsFrom(params_text, 1, [key \in {"I", "J"} |-> None])
        arc_points == _interpolate_arc_points(current_x, current_y, next_x[1], next_y[1],
                                              arc_params["I"], arc_params["J"],
                                              command \in {<<"G", "2">>, <<"G", "0", "2">>})
        next(ps, x, y, cut) == PlotPointsFrom(lines, pos + 1, ps, x, y, cut)
        skip == next(points, current_x, current_y, cut_started)
    IN  IF pos > Len(lines) THEN points
        ELSE IF normalized = <<>> THEN skip
        ELSE IF Contains(upper_line, HKSTR)
        THEN (IF Len(params) >= 4 /\ pierce_x # None /\ pierce_y # None
              THEN next(points, pierce_x, pierce_y, cut_started)
              ELSE skip)
        ELSE IF Contains(upper_line, HKSTO) \/ Contains(upper_line, HKPED) THEN points
        ELSE IF Contains(upper_line, HKCUT)
        THEN next(IF current_x # None /\ current_y # None
                  THEN Append(points, Point(current_x[1], current_y[1])) ELSE points,
                  current_x, current_y, TRUE)
        ELSE IF content = <<>> \/ LineCommandLen(content) = 0 THEN skip
        ELSE IF command \notin MotionCommands THEN skip
        ELSE IF next_x = None \/ next_y = None THEN skip
        ELSE IF command \in ArcCommands /\ cut_started
        THEN next(IF arc_points # <<>> THEN points \o arc_points
                  ELSE IF <<next_x, next_y>> # <<current_x, current_y>>
                  THEN Append(points, Point(next_x[1], next_y[1]))
                  ELSE points,
                  next_x, next_y, cut_started)
        ELSE next(IF cut_started /\ <<current_x, current_y>> # <<next_x, next_y>>
                  THEN Append(points, Point(next_x[1], next_y[1])) ELSE points,
                  next_x, next_y, cut_started)

_build_contour_plot_points(lines) == PlotPointsFrom(lines, 1, <<>>, None, None, FALSE)

\* " X3", " Y-4", " I-5": a word of a motion line
Word(letter, v) == <<" ", letter>> \o IntToText(v)

HkcutLine == HKCUT \o <<"(", "0", ",", "0", ",", "0", ")">>

HkpieLine == <<"H", "K", "P", "I", "E", "(", "0", ",", "0", ",", "0", ")">>

HkleaLine == <<"H", "K", "L", "E", "A", "(", "0", ",", "0", ",", "0", ")">>

G0 == <<"G", "0">>

G1 == <<"G", "1">>

G2 == <<"G", "2">>

G3 == <<"G", "0", "3">>

\* the HKSTR lines of the blocks: without a pierce start, and with one
HkstrLines ==
    {LabelText(PartStride + 1) \o HKSTR \o <<"(", "1", ",", "1", ")">>,
     LabelText(PartStride + 1) \o HKSTR
         \o <<"(", "1", ",", "1", ",", "5", ",", "5", ",", "0", ",", "0", ",", "0", ",", "0", ")">>,
     HKSTR \o <<"(", "1", ",", "1", ",", "0", ".", "5", ",", "2", ",", "0", ",", "0", ")">>}

\* what stands between the HKSTR line and the HKCUT line
LeadIns ==
    {<<>>,
     <<HkpieLine, HkleaLine>>,
     <<G0 \o Word("X", 3) \o Word("Y", 3)>>,
     <<HkpieLine, HkleaLine, G1 \o Word("X", 4)>>,
     <<G1 \o Word("X", 5) \o Word("Y", 5)>>,
     <<G3 \o Word("X", 3) \o Word("Y", 4) \o Word("I", 1) \o Word("J", 1)>>}

\* the HKCUT line, in either case, or none
CutMarks ==
    {<<HkcutLine>>, <<<<"h", "k", "c", "u", "t", "(", "0", ",", "0", ",", "0", ")">>>>, <<>>}

\* the moves that follow: lines, a repeated end point, a move along one axis, a full
\* circle, an arc command without J, a command that is no motion
CutMoves ==
    {<<>>,
     <<G1 \o Word("X", 4) \o Word("Y", 4)>>,
     <<G1 \o Word("X", 4) \o Word("Y", 4), LabelText(7) \o G1 \o Word("X", 4) \o Word("Y", 4)>>,
     <<G1 \o Word("Y", 7), G0 \o Word("X", 1)>>,
     <<G2 \o Word("I", -5) \o Word("J", 0)>>,
     <<G3 \o Word("X", 8) \o Word("Y", 9) \o Word("I", 3)>>,
     <<<<"M", "3">> \o Word("X", 9), G1 \o Word("X", 6) \o Word("Y", 0)>>}

\* how a block ends: HKSTO, HKPED, the end of the lines, a move after HKSTO
BlockEnds ==
    {<<HkstoLine>>, <<HkpedLine>>, <<>>, <<HkstoLine, G1 \o Word("X", 9) \o Word("Y", 9)>>}

PlotBlocks ==
    {<<hkstr>> \o lead \o cut \o moves \o end :
        hkstr \in HkstrLines, lead \in LeadIns, cut \in CutMarks, moves \in CutMoves,
        end \in BlockEnds}

BuildContourPlotPoints ==
    /\ request = NoRequest
    /\ request' = Request("build_contour_plot_points", 0, 0, <<>>, <<>>)
    /\ response' = [kind |-> "ok", points |-> _build_contour_plot_points(program)]
    /\ UNCHANGED <<program, parserVars, releaseVars>>

InitPlot ==
    /\ program \in PlotBlocks
    /\ request = NoRequest
    /\ response = NoResponse
    /\ NoJobs
    /\ source = <<>>
    /\ idx = 0
    /\ commands = <<>>
    /\ errors = <<>>
    /\ comments = <<>>
    /\ unparsed = <<>>
    /\ pstatus = "idle"
    /\ pass = 0
    /\ first = <<>>

NextPlot == BuildContourPlotPoints

SpecPlot == InitPlot /\ [][NextPlot]_vars

\* the directions from the center of an arc to its ends
ArcDirections ==
    {d \in (-5..5) \X (-5..5) : d[1] * d[1] + d[2] * d[2] \in {25, 50}}

\* the center of the arcs, in tenths
ArcCenter == 100

ArcRequest(start_x, start_y, end_x, end_y, offset_i, offset_j, clockwise) ==
    [op |-> "interpolate_arc_points", start_x |-> start_x, start_y |-> start_y,
     end_x |-> end_x, end_y |-> end_y, offset_i |-> offset_i, offset_j |-> offset_j,
     clockwise |-> clockwise]

\* the arcs about the center from one direction to another, with the offsets of the
\* center from the start, without one of them, and with both zero
ArcRequests ==
    {ArcRequest(Some(ArcCenter + from[1]), Some(ArcCenter + from[2]),
                ArcCenter + to[1], ArcCenter + to[2], Some(0 - from[1]), Some(0 - from[2]),
                clockwise) :
        from \in ArcDirections, to \in ArcDirections, clockwise \in BOOLEAN}
    \cup {ArcRequest(Some(ArcCenter), Some(ArcCenter), ArcCenter + 5, ArcCenter, offset_i,
                     offset_j, clockwise) :
             offset_i \in {None, Some(0)}, offset_j \in {None, Some(0)},
             clockwise \in BOOLEAN}
    \cup {ArcRequest(None, None, ArcCenter + 5, ArcCenter, Some(5), Some(0), TRUE)}

InterpolateArcPoints ==
    \E arc \in ArcRequests :
        /\ request = NoRequest
        /\ request' = arc
        /\ response' =
               [kind |-> "ok",
                points |-> _interpolate_arc_points(arc.start_x, arc.start_y, arc.end_x,
                                                   arc.end_y, arc.offset_i, arc.offset_j,
                                                   arc.clockwise)]
        /\ UNCHANGED <<program, parserVars, releaseVars>>

InitArc ==
    /\ program = <<>>
    /\ request = NoRequest
    /\ response = NoResponse
    /\ NoJobs
    /\ source = <<>>
    /\ idx = 0
    /\ commands = <<>>
    /\ errors = <<>>
    /\ comments = <<>>
    /\ unparsed = <<>>
    /\ pstatus = "idle"
    /\ pass = 0
    /\ first = <<>>

NextArc == InterpolateArcPoints

SpecArc == InitArc /\ [][NextArc]_vars

\* the position of the first line with HKCUT, 0 without one
CutAt(block) ==
    With({i \in DOMAIN block : Contains(Upper(block[i]), HKCUT)}, LAMBDA at :
        IF at = {} THEN 0 ELSE Min(at))

\* the line holds a motion command
IsMotion(line) ==
    With(_strip_line_label(Strip(line)), LAMBDA content :
        Take(content, LineCommandLen(content)) \in MotionCommands)

\* the block without the motion commands that stand before its HKCUT line
WithoutLeadIn(block) ==
    With(SelectSeq([i \in DOMAIN block |-> i],
                   LAMBDA i : ~(i < CutAt(block) /\ IsMotion(block[i]))), LAMBDA kept :
        [k \in DOMAIN kept |-> block[kept[k]]])

\* the pierce start: the third and the fourth argument of the HKSTR call that opens
\* the block, None when the call has fewer than four
PierceStart(block) ==
    With(SplitOn(CallMatch(block[1], HKSTR).params, ","), LAMBDA args :
        IF Len(args) < 4 THEN None
        ELSE Some(Point(Tenths(FloatOf(args[3])), Tenths(FloatOf(args[4])))))

\* C26: for a contour block with an HKCUT, the first point of the polyline that
\* _build_contour_plot_points builds is the pierce start that the third and the fourth
\* argument of HKSTR give, and no motion command before HKCUT adds a point to the
\* polyline or changes one: the polyline is that of the block without those commands.
C26_PolylineStartsAtPierce ==
    (request.op = "build_contour_plot_points" /\ CutAt(program) > 0) =>
        /\ PierceStart(program) # None =>
              /\ response.points # <<>>
              /\ response.points[1] = PierceStart(program)[1]
        /\ response.points = _build_contour_plot_points(WithoutLeadIn(program))

\* C27: for every G2/G3 arc with I and J given and a radius that is not zero,
\* _interpolate_arc_points emits one point per segment, at equal steps of the sweep up
\* to its end, uses at least 2 segments, and no segment spans more than 10 degrees.
C27_SegmentsOfAtMostTenDegrees ==
    (/\ request.op = "interpolate_arc_points"
     /\ request.start_x # None /\ request.start_y # None
     /\ request.offset_i # None /\ request.offset_j # None
     /\ <<request.offset_i, request.offset_j>> # <<Some(0), Some(0)>>) =>
        With(Len(response.points), LAMBDA segments :
        With(Atan2(0 - request.offset_j[1], 0 - request.offset_i[1]), LAMBDA start_angle :
        With(SweepOf(start_angle,
                     Atan2(request.end_y - (request.start_y[1] + request.offset_j[1]),
                           request.end_x - (request.start_x[1] + request.offset_i[1])),
                     request.clockwise), LAMBDA sweep :
            /\ segments >= 2
            /\ \A step \in 1..segments :
                  response.points[step].angle = start_angle + (sweep * step) \div segments
            /\ Abs(sweep) <= segments * SegmentAngle)))

(***************************************************************************)
(* Part XIV.  The contour blocks of a part whose contours end with HKSTO,  *)
(* with the next HKSTR line or with HKPED, under SpecBlocks.               *)
(***************************************************************************)
\* the most contours of a part
MaxContours == 3

\* a part's contours: for each, whether an HKSTO line closes it
ContourShapes == UNION {[1..n -> BOOLEAN] : n \in 1..MaxContours}

\* contour c of the p-th part: HKSTR, one move, and HKSTO if it is closed
ShapedContour(p, c, closed) ==
    With(PolylineLines(p * PartStride + c, <<<<0, 0>>, <<c, p>>>>), LAMBDA contour :
        IF closed THEN contour ELSE Take(contour, Len(contour) - 1))

\* the contour span of the p-th part, closed by HKPED
ShapedSpan(p, shape) ==
    Concat([c \in DOMAIN shape |-> ShapedContour(p, c, shape[c])]) \o <<HkpedLine>>

\* the program of two parts whose contours have the shapes
ShapedProgram(shape1, shape2) ==
    HeaderFixture
    \o <<NeighbourHkostLine(1), HkpppLine, NeighbourHkostLine(2), HkpppLine>>
    \o FooterFixture("canonical")
    \o ShapedSpan(1, shape1)
    \o ShapedSpan(2, shape2)

ShapedPrograms ==
    {ShapedProgram(shape1, shape2) : shape1 \in ContourShapes, shape2 \in ContourShapes}

ExtractPartContourBlocks ==
    \E label \in RequestLabels(program) :
        /\ request = NoRequest
        /\ request' = Request("extract_part_contour_blocks", label, 0, <<>>, <<>>)
        /\ response' = [kind |-> "ok", blocks |-> extract_part_contour_blocks(program, label)]
        /\ UNCHANGED <<program, parserVars, releaseVars>>

InitBlocks ==
    /\ program \in ShapedPrograms
    /\ request = NoRequest
    /\ response = NoResponse
    /\ NoJobs
    /\ source = <<>>
    /\ idx = 0
    /\ commands = <<>>
    /\ errors = <<>>
    /\ comments = <<>>
    /\ unparsed = <<>>
    /\ pstatus = "idle"
    /\ pass = 0
    /\ first = <<>>

NextBlocks == ExtractPartContourBlocks

SpecBlocks == InitBlocks /\ [][NextBlocks]_vars

\* the positions of the HKSTR lines of the span of a part, in source order
HkstrLinesOf(lines, part) ==
    SelectSeq([k \in 1..(part.end_line - part.start_line + 1) |-> part.start_line + k - 1],
              LAMBDA i : HasCall(lines[i], HKSTR))

\* C28: splitting the contour span of a part yields exactly one contour block per
\* HKSTR line, in source order, each starting with its HKSTR line and running over
\* lines of the span that no other block holds; so the number of blocks is the contour
\* count of the PartSummary, also when HKPED closes a contour that has no HKSTO.
C28_OneBlockPerHkstrLine ==
    request.op = "extract_part_contour_blocks" =>
        \A p \in DOMAIN summarize_parts(program).parts :
            With(summarize_parts(program).parts[p], LAMBDA part :
            With(HkstrLinesOf(program, part), LAMBDA at :
                part.part_line = request.label =>
                    /\ Len(response.blocks) = part.contours
                    /\ Len(response.blocks) = Len(at)
                    /\ \A j \in DOMAIN response.blocks :
                          With(response.blocks[j], LAMBDA block :
                              /\ block = SubSeq(program, at[j], at[j] + Len(block) - 1)
                              /\ at[j] + Len(block) - 1
                                     < (IF j < Len(at) THEN at[j + 1] ELSE part.end_line + 1))))

(***************************************************************************)
(* Part XV.  The index of a rewritten program, under SpecRewrite.          *)
(***************************************************************************)
\* the first part of the list that has the number
PartNumbered(parts, number) ==
    parts[Min({i \in DOMAIN parts : parts[i].part_number = number})]

\* C30: indexing the output of build_reordered_program again with summarize_parts
\* yields the same number of parts; their part numbers, in output order, are 1, 2, ...,
\* k, and the j-th is the part requested at position j, with the contour count and the
\* anchor that the part had in the original program.
C30_RewrittenProgramIndexesAlike ==
    Reordered =>
        With(summarize_parts(program).parts, LAMBDA parts :
        With(summarize_parts(response.lines), LAMBDA again :
        With(Dedup(SelectSeq(request.order,
                             LAMBDA n : n \in Range(IdentityOrder(program)))
                   \o IdentityOrder(program)), LAMBDA visiting :
            /\ again.kind = "ok"
            /\ Len(again.parts) = Len(parts)
            /\ Len(again.parts) = Len(visiting)
            /\ \A j \in DOMAIN again.parts :
                  /\ again.parts[j].part_number = j
                  /\ again.parts[j].contours = PartNumbered(parts, visiting[j]).contours
                  /\ again.parts[j].anchor_x = PartNumbered(parts, visiting[j]).anchor_x
                  /\ again.parts[j].anchor_y = PartNumbered(parts, visiting[j]).anchor_y)))

====
